---- MODULE Spec2Model ----
(***************************************************************************)
(* VoiceOps-NLP: phase verifiers (src/src/phase_validator.py), risk scorer *)
(* (src/src/risk/scorer.py), pipeline orchestrator and final assembler     *)
(* (src/src/pipeline.py) and the analyze-call endpoint                     *)
(* (src/src/api/upload.py).                                                *)
(*                                                                         *)
(* Numbers.  A Python float is F(n), n an integer, or NaN.  Confidences,   *)
(* sub-scores and thresholds count hundredths (0.85 is F(85), 50.0 is      *)
(* 5000); weights count ten-thousandths (0.15 is 1500), so the 0.001       *)
(* tolerance of _validate_weights is ten units and a weighted sum counts   *)
(* units of 1e-6.  Arithmetic on the integers is exact and round() is      *)
(* round-half-to-even.  Weight sums lying exactly on the tolerance are     *)
(* not drawn: binary floating point decides them by its rounding error.    *)
(* json.loads accepts the literal NaN, and NaN passes every `x < 0.0 or    *)
(* x > 1.0` range check, so a confidence may be NaN.                       *)
(***************************************************************************)
EXTENDS Integers, Sequences, FiniteSets, TLC

VARIABLES
    DEFAULT_WEIGHTS,  \* scorer.py module global: dimension -> weight
    riskPc,           \* "idle" | "done": position of the caller of compute_risk
    riskArgs,         \* arguments of the last compute_risk call
    riskOut,          \* its outcome: a returned record or a raised error
    riskHistory,      \* sequence of [args, out] of the calls made so far
    verifyPc,         \* "idle" | "done": position of the caller of a verifier
    verifyArgs,       \* [verifier, input] of the verifier call made
    verifyOut,        \* its outcome: passed or a raised error
    bundlePc,         \* "idle" | "done": position of the caller of build_signal_bundle
    bundleArgs,       \* arguments of the build_signal_bundle call made
    bundleOut,        \* its outcome: a returned bundle or a raised error
    assemblePc,       \* "idle" | "done": position of the caller of the assembler
    assembleArgs,     \* keyword arguments of the _assemble_final_json call made
    assembleOut,      \* its outcome: a returned record or a raised error
    requests,         \* request -> position and locals of its run_pipeline thread
    fnPc,             \* "idle" | "done": position of the caller of a helper
    fnArgs,           \* the helper called and its arguments
    fnOut,            \* what the helper returned or raised
    retry,            \* chat_completions_with_retry: position, locals, calls, sleeps
    limiter,          \* _rate_limiter: its fields, the clock, each thread's position
    httpPc,           \* analyze_call: "idle" | "running" | "responded"
    response,         \* what analyze_call answers: HTTPException or JSONResponse
    pipePc,           \* run_pipeline: the statement to execute next
    locals,           \* run_pipeline: local variable -> value
    invoked,          \* the calls run_pipeline has made: [name, ok], in order
    raised,           \* the exceptions that have left a call of run_pipeline
    result            \* the value run_pipeline returned

riskVars == <<DEFAULT_WEIGHTS, riskPc, riskArgs, riskOut, riskHistory>>
verifyVars == <<verifyPc, verifyArgs, verifyOut>>
bundleVars == <<bundlePc, bundleArgs, bundleOut>>
assembleVars == <<assemblePc, assembleArgs, assembleOut>>
helperVars == <<fnPc, fnArgs, fnOut>>
laterVars == <<helperVars, retry, limiter>>
callerVars == <<verifyVars, bundleVars, assembleVars, requests, laterVars>>
pipeVars == <<httpPc, response, pipePc, locals, invoked, raised, result>>
vars == <<riskVars, callerVars, pipeVars>>

-----------------------------------------------------------------------------
(* Python values *)

NoneValue == <<"none">>
Dict(f) == <<"dict", f>>
Unset == <<"unset">>

Return(v) == [kind |-> "return", value |-> v]
Raise(type, phase, message) ==
    [kind |-> "raise", type |-> type, phase |-> phase, message |-> message]

\* Python floats
F(n) == <<"f", n>>
NaN == <<"nan", 0>>
IsNaN(x) == x[1] = "nan"

Abs(x) == IF x < 0 THEN -x ELSE x

\* a scorer that forgets to clamp
Unclamped(x, lo, hi) == x

\* min(max(x, lo), hi) on floats: max and min keep their first argument
\* unless the second compares greater (smaller), so NaN stays NaN
clamp(x, lo, hi) ==
    IF IsNaN(x) THEN NaN
    ELSE LET m == IF lo > x[2] THEN lo ELSE x[2]
         IN  F(IF hi < m THEN hi ELSE m)

\* Python round(num/den) for num >= 0: ties go to the even integer
RoundHalfEven(num, den) ==
    LET q == num \div den
        r == num % den
    IN  IF 2 * r < den THEN q
        ELSE IF 2 * r > den THEN q + 1
        ELSE IF q % 2 = 0 THEN q ELSE q + 1

RECURSIVE SumOver(_, _)
SumOver(f, S) ==
    IF S = {} THEN 0
    ELSE LET k == CHOOSE x \in S : TRUE
         IN  f[k] + SumOver(f, S \ {k})

\* dict.get(key, default) on a lookup table
Get(table, key, default) ==
    IF key \in DOMAIN table THEN table[key] ELSE default

-----------------------------------------------------------------------------
(* src/src/risk/scorer.py *)

\* src/src/risk/signals.py: the enumerations
SentimentLabels ==
    {"calm", "neutral", "stressed", "anxious", "frustrated", "evasive"}

IntentLabels ==
    {"repayment_promise", "repayment_delay", "refusal", "deflection",
     "information_seeking", "dispute", "unknown"}

Conditionalities == {"low", "medium", "high"}

Obligations == {"strong", "weak", "conditional", "none"}

Dimensions ==
    <<"sentiment", "intent", "conditionality", "obligation",
      "contradictions", "audio_trust">>

DimensionSet == {Dimensions[i] : i \in 1..Len(Dimensions)}

DefaultWeights ==
    [sentiment |-> 2000, intent |-> 2000, conditionality |-> 1500,
     obligation |-> 1500, contradictions |-> 1500, audio_trust |-> 1500]

FRAUD_THRESHOLD_HIGH == 6500
FRAUD_THRESHOLD_MEDIUM == 3500
RISK_FACTOR_THRESHOLD == 5000

\* float * float, the first a finite table entry counted in units
Scale(base, x) == IF IsNaN(x) THEN NaN ELSE F(base * x[2])

\* sub-scores, in hundredths
score_sentiment(bundle) ==
    LET base_scores == [calm |-> 0, neutral |-> 10, anxious |-> 55,
                        stressed |-> 70, frustrated |-> 60, evasive |-> 85]
        base == Get(base_scores, bundle.sentiment_label, 10)
    IN  Scale(base, bundle.sentiment_confidence)

score_intent(bundle) ==
    LET base_scores == [repayment_promise |-> 5, repayment_delay |-> 40,
                        refusal |-> 80, deflection |-> 75,
                        information_seeking |-> 15, dispute |-> 65,
                        unknown |-> 50]
        base == Get(base_scores, bundle.intent_label, 50)
    IN  Scale(base, bundle.intent_confidence)

score_conditionality(bundle) ==
    LET level_scores == [low |-> 1000, medium |-> 5000, high |-> 8500]
    IN  F(Get(level_scores, bundle.conditionality, 5000))

score_obligation(bundle) ==
    LET strength_scores == [strong |-> 500, weak |-> 4500,
                            conditional |-> 6500, none |-> 8000]
    IN  F(Get(strength_scores, bundle.obligation_strength, 5000))

\* a scorer that ignores the contradiction flag
FlagIgnored(bundle) == F(500)

score_contradictions(bundle) ==
    F(IF bundle.contradictions_detected THEN 9000 ELSE 500)

score_audio_trust(bundle) ==
    LET noise_scores == [low |-> 0, medium |-> 25, high |-> 55]
        stability_scores == [high |-> 0, medium |-> 25, low |-> 55]
        naturalness_scores == [normal |-> 0, suspicious |-> 80]
        noise == Get(noise_scores, bundle.noise_level, 25)
        stability == Get(stability_scores, bundle.call_stability, 25)
        naturalness == Get(naturalness_scores, bundle.speech_naturalness, 0)
    IN  F(naturalness * 50 + noise * 25 + stability * 25)

FACTOR_LABELS ==
    [sentiment |-> "high_emotional_stress",
     intent |-> "risky_intent",
     conditionality |-> "conditional_commitment",
     obligation |-> "weak_obligation",
     contradictions |-> "contradictory_statements",
     audio_trust |-> "suspicious_audio_signals"]

FactorLabelSet == {FACTOR_LABELS[d] : d \in DimensionSet}

\* _validate_weights: the mapping itself, or the ValueError it raises
validate_weights(weights) ==
    IF DOMAIN weights # DimensionSet
    THEN Raise("ValueError", "none", "Invalid weight keys")
    ELSE IF Abs(SumOver(weights, DOMAIN weights) - 10000) > 10
    THEN Raise("ValueError", "none", "Weights must sum to 1.0")
    ELSE Return(weights)

\* `weights or DEFAULT_WEIGHTS`: None and the empty dict are falsy
resolve_weights(weights, defaults) ==
    IF weights = NoneValue \/ DOMAIN weights[2] = {}
    THEN defaults
    ELSE weights[2]

\* a scorer whose confidence has no floor: the mean of the two confidences
NoFloor(bundle) ==
    IF IsNaN(bundle.sentiment_confidence) \/ IsNaN(bundle.intent_confidence)
    THEN NaN
    ELSE F(RoundHalfEven(50 * bundle.sentiment_confidence[2]
                             + 50 * bundle.intent_confidence[2], 100))

\* _compute_confidence, in hundredths: round(clamp(0.4 s + 0.4 i + 0.2), 2)
compute_confidence(bundle) ==
    LET s == bundle.sentiment_confidence
        i == bundle.intent_confidence
        confidence ==
            clamp(IF IsNaN(s) \/ IsNaN(i) THEN NaN
                  ELSE F(40 * s[2] + 40 * i[2] + 2000), 0, 10000)
    IN  IF IsNaN(confidence) THEN NaN
        ELSE F(RoundHalfEven(confidence[2], 100))

sub_scores(bundle) ==
    [sentiment |-> score_sentiment(bundle),
     intent |-> score_intent(bundle),
     conditionality |-> score_conditionality(bundle),
     obligation |-> score_obligation(bundle),
     contradictions |-> score_contradictions(bundle),
     audio_trust |-> score_audio_trust(bundle)]

\* a scorer that flags a dimension only above the threshold
Exceeds(sub, risk_factor_threshold) ==
    ~IsNaN(sub) /\ sub[2] > risk_factor_threshold

\* sub_scores[dim] >= risk_factor_threshold: false for NaN
meets(sub, risk_factor_threshold) ==
    ~IsNaN(sub) /\ sub[2] >= risk_factor_threshold

\* the list comprehension of scorer.py:302-306, in the order of sub_scores
key_risk_factors(bundle, risk_factor_threshold) ==
    LET subs == sub_scores(bundle)
        hit(dim) == meets(subs[dim], risk_factor_threshold)
        dims == SelectSeq(Dimensions, hit)
    IN  [i \in 1..Len(dims) |-> FACTOR_LABELS[dims[i]]]

\* a scorer that compares with > where the code compares with >=
StrictlyAbove(risk_score, fraud_threshold_high, fraud_threshold_medium) ==
    IF risk_score * 100 > fraud_threshold_high THEN "high"
    ELSE IF risk_score * 100 > fraud_threshold_medium THEN "medium"
    ELSE "low"

fraud_likelihood(risk_score, fraud_threshold_high, fraud_threshold_medium) ==
    IF risk_score * 100 >= fraud_threshold_high THEN "high"
    ELSE IF risk_score * 100 >= fraud_threshold_medium THEN "medium"
    ELSE "low"

\* sum(sub_scores[dim] * active_weights[dim] for dim in active_weights)
weighted_sum(subs, active_weights) ==
    IF \E dim \in DOMAIN active_weights : IsNaN(subs[dim]) THEN NaN
    ELSE LET weighted == [dim \in DOMAIN active_weights |->
                             subs[dim][2] * active_weights[dim]]
         IN  F(SumOver(weighted, DOMAIN weighted))

compute_risk(bundle, weights, fraud_threshold_high, fraud_threshold_medium, risk_factor_threshold, defaults) ==
    LET validated == validate_weights(resolve_weights(weights, defaults))
    IN  IF validated.kind = "raise" THEN validated
        ELSE
        LET raw_score == weighted_sum(sub_scores(bundle), validated.value)
            clamped == clamp(raw_score, 0, 100000000)
        IN  IF IsNaN(clamped)
            THEN Raise("ValueError", "none",
                       "cannot convert float NaN to integer")
            ELSE
            LET risk_score == RoundHalfEven(clamped[2], 1000000)
            IN  Return([risk_score |-> risk_score,
                        fraud_likelihood |->
                            fraud_likelihood(risk_score, fraud_threshold_high,
                                             fraud_threshold_medium),
                        confidence |-> compute_confidence(bundle),
                        key_risk_factors |->
                            key_risk_factors(bundle, risk_factor_threshold)])

\* a scorer that clears each weight once it has used it
Cleared(active_weights) == [dim \in DOMAIN active_weights |-> 0]

\* active_weights is the caller's mapping, or the module dict itself when
\* weights is falsy (scorer.py:266); the aggregation only reads it
active_weights_after_scoring(active_weights) == active_weights

\* a scorer that keeps the last valid caller-supplied mapping as its default
GlobalsCached(defaults, weights) ==
    IF weights # NoneValue /\ validate_weights(weights[2]).kind = "return"
    THEN weights[2]
    ELSE defaults

\* compute_risk and _validate_weights assign nothing at module level: the
\* module global after a call is the module global before it
globals_after_compute_risk(defaults, weights) == defaults

-----------------------------------------------------------------------------
(* Python values passed between phases.  A dict is Dict(f), f a function   *)
(* from its keys; a list is List(seq); a str is Str(s) when only its       *)
(* identity matters and Text(atoms) when its characters do: a sequence of  *)
(* atoms, each a run of letters, a punctuation mark or a whitespace        *)
(* character.  PyInt(n) is the int n; PyFloat(x) a float in hundredths.    *)

List(seq) == <<"list", seq>>
Str(s) == <<"str", s>>
Text(atoms) == <<"text", atoms>>
PyInt(n) == <<"int", n>>
PyFloat(x) == <<"float", x>>
PyBool(b) == <<"bool", b>>

IsDict(v) == v[1] = "dict"
IsList(v) == v[1] = "list"
IsStr(v) == v[1] \in {"str", "text"}
IsBool(v) == v[1] = "bool"
\* isinstance(v, int): bool is a subclass of int
IsInt(v) == v[1] \in {"int", "bool"}
\* isinstance(v, (int, float))
IsNumber(v) == v[1] \in {"int", "float", "bool"}

\* the value of a number as a float in hundredths
AsFloat(v) ==
    IF v[1] = "float" THEN v[2]
    ELSE IF v[1] = "bool" THEN F(IF v[2] THEN 100 ELSE 0)
    ELSE F(100 * v[2])

\* x < 0.0 or x > 1.0: both comparisons are false for NaN
OutsideUnit(x) == ~IsNaN(x) /\ (x[2] < 0 \/ x[2] > 100)

Has(d, key) == key \in DOMAIN d[2]
At(d, key) == d[2][key]
\* d.get(key, default)
GetOr(d, key, default) == IF Has(d, key) THEN At(d, key) ELSE default

Whitespace == {" ", "\t", "\n"}

RECURSIVE StripLeft(_)
StripLeft(atoms) ==
    IF atoms # <<>> /\ Head(atoms) \in Whitespace
    THEN StripLeft(Tail(atoms))
    ELSE atoms

RECURSIVE StripRight(_)
StripRight(atoms) ==
    IF atoms # <<>> /\ atoms[Len(atoms)] \in Whitespace
    THEN StripRight(SubSeq(atoms, 1, Len(atoms) - 1))
    ELSE atoms

\* str.strip()
Strip(atoms) == StripRight(StripLeft(atoms))

\* str.split(): the maximal runs of non-whitespace atoms
RECURSIVE SplitFrom(_, _, _)
SplitFrom(atoms, word, words) ==
    IF atoms = <<>>
    THEN IF word = <<>> THEN words ELSE Append(words, word)
    ELSE IF Head(atoms) \in Whitespace
    THEN SplitFrom(Tail(atoms), <<>>,
                   IF word = <<>> THEN words ELSE Append(words, word))
    ELSE SplitFrom(Tail(atoms), Append(word, Head(atoms)), words)

Split(atoms) == SplitFrom(atoms, <<>>, <<>>)

\* str.lower(), atom by atom
Lowercase ==
    [Customer |-> "customer", Fraudster |-> "fraudster", SCAM |-> "scam",
     Lied |-> "lied", The |-> "the", I |-> "i", Hello |-> "hello",
     Surely |-> "surely", Hindi |-> "hindi", English |-> "english",
     Definitely |-> "definitely", Maybe |-> "maybe", If |-> "if",
     Tomorrow |-> "tomorrow", First |-> "first", Second |-> "second"]

Lower(atoms) == [i \in 1..Len(atoms) |-> Get(Lowercase, atoms[i], atoms[i])]

Min(S) == CHOOSE x \in S : \A y \in S : x <= y

-----------------------------------------------------------------------------
(* src/src/phase_validator.py *)

\* a verifier returns None ...
Passed == Return(NoneValue)

\* ... or raises PhaseVerificationError(phase, message)
PhaseVerificationError(phase, message) ==
    Raise("PhaseVerificationError", phase, message)

\* the outcome of the first element that fails, in list order
FirstFailure(outcomes) ==
    LET failing == {i \in 1..Len(outcomes) : outcomes[i].kind = "raise"}
    IN  IF failing = {} THEN Passed ELSE outcomes[Min(failing)]

\* the first required key that is missing, in the order the loop tests them
MissingKey(d, keys) ==
    LET missing == {i \in 1..Len(keys) : ~Has(d, keys[i])}
    IN  IF missing = {} THEN "" ELSE keys[Min(missing)]

DiarizationForbidden ==
    "contains 'speaker' key - diarization is FORBIDDEN in Phase 2"

\* a verifier that tests for the "speaker" key before anything else
SpeakerCheckedFirst(seg) ==
    IF IsDict(seg) /\ Has(seg, "speaker")
    THEN PhaseVerificationError("2", DiarizationForbidden)
    ELSE Passed

\* the body of the loop of verify_phase2 for one segment
verify_segment(seg) ==
    IF ~IsDict(seg) THEN PhaseVerificationError("2", "is not a dict")
    ELSE IF MissingKey(seg, <<"start_time", "end_time", "text">>) # ""
    THEN PhaseVerificationError("2", "missing required key")
    ELSE IF ~IsNumber(At(seg, "start_time"))
    THEN PhaseVerificationError("2", "start_time is not numeric")
    ELSE IF ~IsNumber(At(seg, "end_time"))
    THEN PhaseVerificationError("2", "end_time is not numeric")
    ELSE IF \/ At(seg, "text")[1] # "text"
            \/ Strip(At(seg, "text")[2]) = <<>>
    THEN PhaseVerificationError("2", "has empty or non-string text")
    ELSE IF Has(seg, "speaker")
    THEN PhaseVerificationError("2", DiarizationForbidden)
    ELSE Passed

verify_phase2(transcript) ==
    IF ~IsList(transcript)
    THEN PhaseVerificationError("2", "Expected list")
    ELSE IF transcript[2] = <<>>
    THEN PhaseVerificationError("2", "Transcript is empty")
    ELSE FirstFailure([i \in 1..Len(transcript[2]) |->
                          verify_segment(transcript[2][i])])

VALID_SPEAKERS == {Str("AGENT"), Str("CUSTOMER"), Str("unknown")}

verify_utterance3(utt) ==
    IF ~IsDict(utt) THEN PhaseVerificationError("3", "is not a dict")
    ELSE IF MissingKey(utt, <<"speaker", "text", "confidence">>) # ""
    THEN PhaseVerificationError("3", "missing required key")
    ELSE IF At(utt, "speaker") \notin VALID_SPEAKERS
    THEN PhaseVerificationError("3", "has invalid speaker")
    ELSE IF \/ At(utt, "text")[1] # "text"
            \/ Strip(At(utt, "text")[2]) = <<>>
    THEN PhaseVerificationError("3", "has empty or non-string text")
    ELSE IF ~IsNumber(At(utt, "confidence"))
    THEN PhaseVerificationError("3", "confidence is not numeric")
    ELSE IF OutsideUnit(AsFloat(At(utt, "confidence")))
    THEN PhaseVerificationError("3", "confidence out of range")
    ELSE Passed

verify_phase3(structured) ==
    IF ~IsList(structured)
    THEN PhaseVerificationError("3", "Expected list")
    ELSE IF structured[2] = <<>>
    THEN PhaseVerificationError("3", "Structured utterances are empty")
    ELSE FirstFailure([i \in 1..Len(structured[2]) |->
                          verify_utterance3(structured[2][i])])

verify_utterance4(utt) ==
    IF ~IsDict(utt) THEN PhaseVerificationError("4", "is not a dict")
    ELSE IF MissingKey(utt, <<"speaker", "text", "start_time", "end_time">>)
            # ""
    THEN PhaseVerificationError("4", "missing required key")
    ELSE IF ~IsStr(At(utt, "text"))
    THEN PhaseVerificationError("4", "text is not a string")
    ELSE Passed

verify_phase4(utterances) ==
    IF ~IsList(utterances)
    THEN PhaseVerificationError("4", "Expected list")
    ELSE IF utterances[2] = <<>>
    THEN PhaseVerificationError("4", "Utterances are empty")
    ELSE FirstFailure([i \in 1..Len(utterances[2]) |->
                          verify_utterance4(utterances[2][i])])

VALID_SENTIMENT_LABELS == {Str(l) : l \in SentimentLabels}

PresentKeys(d, keys) == {i \in 1..Len(keys) : Has(d, keys[i])}

\* a verifier that tests the shape only
ShapeOnly(sentiment) ==
    IF ~IsDict(sentiment) THEN PhaseVerificationError("5", "Expected dict")
    ELSE Passed

verify_phase5(sentiment) ==
    IF ~IsDict(sentiment) THEN PhaseVerificationError("5", "Expected dict")
    ELSE IF ~Has(sentiment, "label")
    THEN PhaseVerificationError("5", "Missing 'label' key")
    ELSE IF ~Has(sentiment, "confidence")
    THEN PhaseVerificationError("5", "Missing 'confidence' key")
    ELSE IF At(sentiment, "label") \notin VALID_SENTIMENT_LABELS
    THEN PhaseVerificationError("5", "Invalid sentiment label")
    ELSE IF ~IsNumber(At(sentiment, "confidence"))
    THEN PhaseVerificationError("5", "Confidence is not numeric")
    ELSE IF OutsideUnit(AsFloat(At(sentiment, "confidence")))
    THEN PhaseVerificationError("5", "Confidence out of range")
    ELSE IF PresentKeys(sentiment,
                        <<"risk_score", "fraud_likelihood", "intent">>) # {}
    THEN PhaseVerificationError("5", "Sentiment contains forbidden key")
    ELSE Passed

VALID_INTENT_LABELS == {Str(l) : l \in IntentLabels}
VALID_CONDITIONALITY == {Str(l) : l \in Conditionalities}
VALID_OBLIGATION == {Str(l) : l \in Obligations}

\* a verifier that takes a missing field for its default and passes
DefaultsAssumed(intent, obligation_strength, contradictions_detected, entities) ==
    IF ~IsDict(intent)
    THEN PhaseVerificationError("6", "Intent: expected dict")
    ELSE Passed

verify_phase6(intent, obligation_strength, contradictions_detected, entities) ==
    IF ~IsDict(intent)
    THEN PhaseVerificationError("6", "Intent: expected dict")
    ELSE IF MissingKey(intent, <<"label", "confidence", "conditionality">>)
            # ""
    THEN PhaseVerificationError("6", "Intent missing required key")
    ELSE IF At(intent, "label") \notin VALID_INTENT_LABELS
    THEN PhaseVerificationError("6", "Invalid intent label")
    ELSE IF ~IsNumber(At(intent, "confidence"))
    THEN PhaseVerificationError("6", "Intent confidence not numeric")
    ELSE IF At(intent, "conditionality") \notin VALID_CONDITIONALITY
    THEN PhaseVerificationError("6", "Invalid conditionality")
    ELSE IF obligation_strength \notin VALID_OBLIGATION
    THEN PhaseVerificationError("6", "Invalid obligation strength")
    ELSE IF ~IsBool(contradictions_detected)
    THEN PhaseVerificationError("6", "contradictions_detected must be bool")
    ELSE IF ~IsDict(entities)
    THEN PhaseVerificationError("6", "Entities: expected dict")
    ELSE IF ~Has(entities, "payment_commitment")
    THEN PhaseVerificationError("6", "Entities missing 'payment_commitment'")
    ELSE IF ~Has(entities, "amount_mentioned")
    THEN PhaseVerificationError("6", "Entities missing 'amount_mentioned'")
    ELSE IF PresentKeys(intent, <<"risk_score", "fraud_likelihood">>) # {}
    THEN PhaseVerificationError("6", "Intent contains forbidden key")
    ELSE Passed

verify_phase7(risk_assessment) ==
    IF ~IsDict(risk_assessment)
    THEN PhaseVerificationError("7", "Expected dict")
    ELSE IF MissingKey(risk_assessment,
                       <<"risk_score", "fraud_likelihood", "confidence",
                         "key_risk_factors">>) # ""
    THEN PhaseVerificationError("7", "Risk assessment missing required key")
    ELSE IF ~IsInt(At(risk_assessment, "risk_score"))
    THEN PhaseVerificationError("7", "risk_score must be int")
    ELSE IF LET rs == AsFloat(At(risk_assessment, "risk_score"))[2]
            IN  rs < 0 \/ rs > 10000
    THEN PhaseVerificationError("7", "risk_score out of range [0, 100]")
    ELSE IF At(risk_assessment, "fraud_likelihood")
            \notin {Str("low"), Str("medium"), Str("high")}
    THEN PhaseVerificationError("7", "Invalid fraud_likelihood")
    ELSE IF ~IsNumber(At(risk_assessment, "confidence"))
    THEN PhaseVerificationError("7", "confidence not numeric")
    ELSE IF OutsideUnit(AsFloat(At(risk_assessment, "confidence")))
    THEN PhaseVerificationError("7", "confidence out of range")
    ELSE IF ~IsList(At(risk_assessment, "key_risk_factors"))
    THEN PhaseVerificationError("7", "key_risk_factors must be list")
    ELSE Passed

BANNED_WORDS ==
    {"fraudster", "lied", "lying", "scam", "scammer", "criminal", "guilty",
     "dishonest", "cheat", "thief", "steal", "deceive", "deceptive",
     "malicious"}

verify_phase8(summary) ==
    IF summary[1] # "text"
    THEN PhaseVerificationError("8", "Expected string")
    ELSE IF Strip(summary[2]) = <<>>
    THEN PhaseVerificationError("8", "Summary is empty")
    ELSE IF LET stripped == Strip(summary[2])
            IN  stripped[Len(stripped)] # "."
    THEN PhaseVerificationError("8", "Summary must end with a period")
    ELSE IF LET words == Split(Lower(summary[2]))
            IN  \E word \in BANNED_WORDS, i \in 1..Len(words) :
                   words[i] = <<word>>
    THEN PhaseVerificationError("8", "Summary contains banned word")
    ELSE Passed

\* a verifier that leaves the noise level unchecked
NoiseUnchecked(quality) ==
    IF ~IsDict(quality)
    THEN PhaseVerificationError("1", "Audio quality: expected dict")
    ELSE IF GetOr(quality, "call_stability", NoneValue)
            \notin {Str("low"), Str("medium"), Str("high")}
    THEN PhaseVerificationError("1", "Invalid call_stability")
    ELSE IF GetOr(quality, "speech_naturalness", NoneValue)
            \notin {Str("normal"), Str("suspicious")}
    THEN PhaseVerificationError("1", "Invalid speech_naturalness")
    ELSE Passed

\* quality.get(key): None when the key is absent
verify_audio_quality(quality) ==
    IF ~IsDict(quality)
    THEN PhaseVerificationError("1", "Audio quality: expected dict")
    ELSE IF GetOr(quality, "noise_level", NoneValue)
            \notin {Str("low"), Str("medium"), Str("high")}
    THEN PhaseVerificationError("1", "Invalid noise_level")
    ELSE IF GetOr(quality, "call_stability", NoneValue)
            \notin {Str("low"), Str("medium"), Str("high")}
    THEN PhaseVerificationError("1", "Invalid call_stability")
    ELSE IF GetOr(quality, "speech_naturalness", NoneValue)
            \notin {Str("normal"), Str("suspicious")}
    THEN PhaseVerificationError("1", "Invalid speech_naturalness")
    ELSE Passed

\* the verifiers read their argument and assign to no part of it: what the
\* caller holds after a call is what it passed
argument_after_verify(input) == input

-----------------------------------------------------------------------------
(* src/src/risk/signals.py: build_signal_bundle *)

\* value in a set of str, for a value of any type
InLabels(value, labels) == value[1] = "str" /\ value[2] \in labels

NoiseLevels == {"low", "medium", "high"}
CallStabilities == {"low", "medium", "high"}
SpeechNaturalnesses == {"normal", "suspicious"}

\* the first statement that fails, in the order of the function body: 1..12
\* are the twelve checks, 13..15 a .get on an argument that is no dict, 0 is
\* no failure
bundle_defect(sentiment, intent, obligation_strength, contradictions_detected, audio_quality) ==
    LET s_conf == GetOr(sentiment, "confidence", NoneValue)
        i_conf == GetOr(intent, "confidence", NoneValue)
    IN  IF ~IsDict(sentiment) THEN 13
        ELSE IF ~InLabels(GetOr(sentiment, "label", Str("")), SentimentLabels)
        THEN 1
        ELSE IF ~IsNumber(s_conf) THEN 2
        ELSE IF OutsideUnit(AsFloat(s_conf)) THEN 3
        ELSE IF ~IsDict(intent) THEN 14
        ELSE IF ~InLabels(GetOr(intent, "label", Str("")), IntentLabels)
        THEN 4
        ELSE IF ~IsNumber(i_conf) THEN 5
        ELSE IF OutsideUnit(AsFloat(i_conf)) THEN 6
        ELSE IF ~InLabels(GetOr(intent, "conditionality", Str("")),
                          Conditionalities)
        THEN 7
        ELSE IF ~InLabels(obligation_strength, Obligations) THEN 8
        ELSE IF ~IsBool(contradictions_detected) THEN 9
        ELSE IF ~IsDict(audio_quality) THEN 15
        ELSE IF ~InLabels(GetOr(audio_quality, "noise_level", Str("")),
                          NoiseLevels)
        THEN 10
        ELSE IF ~InLabels(GetOr(audio_quality, "call_stability", Str("")),
                          CallStabilities)
        THEN 11
        ELSE IF ~InLabels(GetOr(audio_quality, "speech_naturalness", Str("")),
                          SpeechNaturalnesses)
        THEN 12
        ELSE 0

BundleErrors ==
    <<"Invalid sentiment label", "Sentiment confidence must be a number",
      "Sentiment confidence out of range", "Invalid intent label",
      "Intent confidence must be a number", "Intent confidence out of range",
      "Invalid conditionality", "Invalid obligation strength",
      "contradictions_detected must be bool", "Invalid noise_level",
      "Invalid call_stability", "Invalid speech_naturalness",
      "sentiment has no attribute 'get'", "intent has no attribute 'get'",
      "audio_quality has no attribute 'get'">>

build_signal_bundle(sentiment, intent, obligation_strength, contradictions_detected, audio_quality) ==
    LET defect == bundle_defect(sentiment, intent, obligation_strength,
                                contradictions_detected, audio_quality)
    IN  IF defect > 12
        THEN Raise("AttributeError", "none", BundleErrors[defect])
        ELSE IF defect # 0
        THEN Raise("ValueError", "none", BundleErrors[defect])
        ELSE Return(
            [sentiment_label |-> At(sentiment, "label")[2],
             sentiment_confidence |-> AsFloat(At(sentiment, "confidence")),
             intent_label |-> At(intent, "label")[2],
             intent_confidence |-> AsFloat(At(intent, "confidence")),
             conditionality |-> At(intent, "conditionality")[2],
             obligation_strength |-> obligation_strength[2],
             contradictions_detected |-> contradictions_detected[2],
             noise_level |-> At(audio_quality, "noise_level")[2],
             call_stability |-> At(audio_quality, "call_stability")[2],
             speech_naturalness |-> At(audio_quality, "speech_naturalness")[2]])

\* the dict compute_risk returns, as a Python value
risk_assessment_dict(assessment) ==
    Dict([risk_score |-> PyInt(assessment.risk_score),
          fraud_likelihood |-> Str(assessment.fraud_likelihood),
          confidence |-> PyFloat(assessment.confidence),
          key_risk_factors |->
              List([i \in 1..Len(assessment.key_risk_factors) |->
                       Str(assessment.key_risk_factors[i])])])

-----------------------------------------------------------------------------
(* src/src/nlp/obligation.py *)

NO_OBLIGATION_INTENTS ==
    {"refusal", "deflection", "information_seeking", "dispute", "unknown"}

COMMITMENT_INTENTS == {"repayment_promise", "repayment_delay"}

\* the three counts are the numbers of strong, weak and conditional marker
\* matches in the customer text
derive_from_commitment_intent(intent_label, conditionality, strong_count, weak_count, conditional_count) ==
    IF conditionality = Str("high") THEN Str("conditional")
    ELSE IF intent_label = Str("repayment_promise")
            /\ conditionality = Str("low")
    THEN IF strong_count > 0 THEN Str("strong") ELSE Str("weak")
    ELSE IF intent_label = Str("repayment_promise")
            /\ conditionality = Str("medium")
    THEN IF conditional_count > 0 THEN Str("conditional")
         ELSE IF strong_count > weak_count THEN Str("weak")
         ELSE Str("conditional")
    ELSE IF intent_label = Str("repayment_delay")
    THEN IF conditionality = Str("low") THEN Str("weak")
         ELSE Str("conditional")
    ELSE Str("none")

derive_obligation_strength(intent_result, strong_count, weak_count, conditional_count) ==
    IF ~IsDict(intent_result)
    THEN Raise("AttributeError", "none", "object has no attribute 'get'")
    ELSE
    LET intent_label == GetOr(intent_result, "label", Str("unknown"))
        conditionality == GetOr(intent_result, "conditionality", Str("low"))
    IN  IF InLabels(intent_label, NO_OBLIGATION_INTENTS)
        THEN Return(Str("none"))
        ELSE IF InLabels(intent_label, COMMITMENT_INTENTS)
        THEN Return(derive_from_commitment_intent(
                        intent_label, conditionality, strong_count,
                        weak_count, conditional_count))
        ELSE Return(Str("none"))

\* some of the marker lists, in the order of the alternation, lowercased
\* (the patterns are compiled with re.IGNORECASE)
STRONG_MARKERS ==
    <<<<"i", " ", "promise">>, <<"definitely">>,
      <<"tomorrow", " ", "i", " ", "will">>, <<"i", " ", "will", " ", "clear">>>>

WEAK_MARKERS == <<<<"maybe">>, <<"not", " ", "sure">>, <<"i", " ", "hope">>>>

CONDITIONAL_MARKERS == <<<<"if">>, <<"once">>, <<"depends", " ", "on">>>>

\* the marker matches at the head of the text; words are whole atoms, so the
\* \b of the patterns hold wherever an atom starts or ends
MatchesAtHead(atoms, marker) ==
    /\ Len(marker) <= Len(atoms)
    /\ SubSeq(atoms, 1, Len(marker)) = marker

\* len(pattern.findall(text)): the matches found from left to right, the
\* first alternative that matches at a position taken, none overlapping
RECURSIVE count_marker_matches(_, _)
count_marker_matches(atoms, markers) ==
    IF atoms = <<>> THEN 0
    ELSE LET matching == {k \in 1..Len(markers) :
                             MatchesAtHead(Lower(atoms), markers[k])}
         IN  IF matching = {}
             THEN count_marker_matches(Tail(atoms), markers)
             ELSE 1 + count_marker_matches(
                          SubSeq(atoms, Len(markers[Min(matching)]) + 1,
                                 Len(atoms)),
                          markers)

\* str.upper() of the speaker names the utterances carry
Uppercase == [customer |-> "CUSTOMER", Customer |-> "CUSTOMER", agent |-> "AGENT"]

\* " ".join(texts)
RECURSIVE JoinWithSpace(_)
JoinWithSpace(texts) ==
    IF texts = <<>> THEN <<>>
    ELSE IF Len(texts) = 1 THEN texts[1]
    ELSE texts[1] \o <<" ">> \o JoinWithSpace(Tail(texts))

\* a derivation that reads the text of every speaker
AllSpeakers(utterances) ==
    LET text(i) == Strip(GetOr(utterances[i], "text", Text(<<>>))[2])
        NonEmpty(t) == t # <<>>
    IN  JoinWithSpace(SelectSeq([i \in 1..Len(utterances) |-> text(i)],
                                NonEmpty))

\* the stripped, non-empty texts of the CUSTOMER utterances, joined
\* (obligation.py:262-269)
customer_text(utterances) ==
    LET speaker(i) == GetOr(utterances[i], "speaker", Str(""))[2]
        text(i) == Strip(GetOr(utterances[i], "text", Text(<<>>))[2])
        kept(i) == IF Get(Uppercase, speaker(i), speaker(i)) = "CUSTOMER"
                   THEN text(i) ELSE <<>>
        NonEmpty(t) == t # <<>>
    IN  JoinWithSpace(SelectSeq([i \in 1..Len(utterances) |-> kept(i)],
                                NonEmpty))

\* derive_obligation_strength(intent_result, utterances)
obligation_strength_of(intent_result, utterances) ==
    LET text == customer_text(utterances)
    IN  derive_obligation_strength(
            intent_result,
            count_marker_matches(text, STRONG_MARKERS),
            count_marker_matches(text, WEAK_MARKERS),
            count_marker_matches(text, CONDITIONAL_MARKERS))

-----------------------------------------------------------------------------
(* src/src/openai_retry.py *)

MAX_RETRIES == 4
\* delays in tenths of a second
BASE_DELAY == 10
MAX_DELAY == 300
BACKOFF_FACTOR == 2

RETRYABLE_STATUS_CODES == {429, 500, 502, 503, 504}

\* an exception of the provider: its type name, its status_code attribute
\* where it has one, and the status codes whose digits its message shows
ProviderError(type, has_status_code, status_code, mentions) ==
    [kind |-> "raise", type |-> type, has_status_code |-> has_status_code,
     status_code |-> status_code, mentions |-> mentions]

\* a wrapper that takes every error for a transient one
AlwaysRetryable(exc) == TRUE

is_retryable(exc) ==
    IF exc.type \in {"RateLimitError", "APITimeoutError", "APIConnectionError"}
    THEN TRUE
    ELSE IF exc.has_status_code
    THEN exc.status_code \in RETRYABLE_STATUS_CODES
    ELSE exc.mentions \cap RETRYABLE_STATUS_CODES # {}

\* the wrapper before it is called
NotCalled ==
    [pc |-> "idle", attempt |-> 0, delay |-> BASE_DELAY, calls |-> <<>>,
     sleeps |-> <<>>, out |-> Unset]

-----------------------------------------------------------------------------
(* src/src/pipeline.py: the helpers of run_pipeline *)

AudioTrustDimensions == <<"noise_level", "call_stability", "speech_naturalness">>

AUDIO_TRUST_FLAG_MAP ==
    [noise_level |->
         [low |-> NoneValue, medium |-> Str("moderate_noise"),
          high |-> Str("high_background_noise")],
     call_stability |->
         [low |-> Str("low_call_stability"), medium |-> NoneValue,
          high |-> NoneValue],
     speech_naturalness |->
         [normal |-> NoneValue, suspicious |-> Str("unnatural_speech_pattern")]]

derive_audio_trust_flags(audio_quality) ==
    LET flag(dimension) ==
            LET value == GetOr(audio_quality, dimension, Str(""))
                mapping == AUDIO_TRUST_FLAG_MAP[dimension]
            IN  IF value[1] = "str" /\ value[2] \in DOMAIN mapping
                THEN mapping[value[2]]
                ELSE NoneValue
        Truthy(f) == f # NoneValue
    IN  List(SelectSeq([i \in 1..Len(AudioTrustDimensions) |->
                           flag(AudioTrustDimensions[i])], Truthy))

BEHAVIORAL_FLAG_MAP ==
    [conditional_commitment |-> "conditional_commitment",
     contradictory_statements |-> "statement_contradiction",
     high_emotional_stress |-> "emotional_distress",
     risky_intent |-> "evasive_responses",
     weak_obligation |-> "weak_commitment"]

\* the loop over key_risk_factors: flags is the list built so far
RECURSIVE behavioral_flags_loop(_, _)
behavioral_flags_loop(factors, flags) ==
    IF factors = <<>> THEN flags
    ELSE LET factor == Head(factors)
             mapped == factor[1] = "str"
                       /\ factor[2] \in DOMAIN BEHAVIORAL_FLAG_MAP
             flag == Str(BEHAVIORAL_FLAG_MAP[factor[2]])
         IN  behavioral_flags_loop(
                 Tail(factors),
                 IF mapped /\ \A i \in 1..Len(flags) : flags[i] # flag
                 THEN Append(flags, flag)
                 ELSE flags)

\* bool(x) for the values a contradiction flag takes
Truth(value) ==
    IF value[1] = "bool" THEN value[2]
    ELSE IF value[1] = "none" THEN FALSE
    ELSE TRUE

\* a derivation that trusts the factor list alone
FromFactorsOnly(risk_factors, contradictions_detected) ==
    List(behavioral_flags_loop(risk_factors[2], <<>>))

derive_behavioral_flags(risk_factors, contradictions_detected) ==
    LET flags == behavioral_flags_loop(risk_factors[2], <<>>)
        present == \E i \in 1..Len(flags) :
                      flags[i] = Str("statement_contradiction")
    IN  List(IF Truth(contradictions_detected) /\ ~present
             THEN Append(flags, Str("statement_contradiction"))
             ELSE flags)

leading_patterns ==
    <<<<"wouldn't", " ", "you", " ", "agree">>,
      <<"you", " ", "have", " ", "to", " ", "admit">>,
      <<"surely", " ", "you">>,
      <<"you", " ", "must", " ", "agree">>,
      <<"don't", " ", "you", " ", "think">>,
      <<"obviously">>,
      <<"clearly", " ", "you">>,
      <<"as", " ", "you", " ", "know">>>>

\* pattern in text, for a pattern made of whole atoms
Contains(atoms, pattern) ==
    \E i \in 0..(Len(atoms) - Len(pattern)) :
        SubSeq(atoms, i + 1, i + Len(pattern)) = pattern

derive_speaker_analysis(structured_utterances) ==
    LET utts == structured_utterances[2]
        leads(utt) ==
            /\ GetOr(utt, "speaker", NoneValue) = Str("AGENT")
            /\ LET text_lower == Lower(GetOr(utt, "text", Text(<<>>))[2])
               IN  \E k \in 1..Len(leading_patterns) :
                      Contains(text_lower, leading_patterns[k])
    IN  Dict([customer_only_analysis |-> PyBool(TRUE),
              agent_influence_detected |->
                  PyBool(\E i \in 1..Len(utts) : leads(utts[i]))])

Max(S) == CHOOSE x \in S : \A y \in S : y <= x

\* timestamps are floats in hundredths; round(x, 2) rounds half to even
bridge_phase3_to_phase4(structured, transcript) ==
    LET segs == transcript[2]
        utts == structured[2]
        n == Len(utts)
        total_duration ==
            IF segs = <<>> THEN 0
            ELSE Max({AsFloat(GetOr(segs[i], "end_time", PyFloat(F(0))))[2] :
                         i \in 1..Len(segs)})
        edge(i) ==
            IF total_duration > 0 THEN RoundHalfEven(i * total_duration, n)
            ELSE 100 * i
    IN  List([i \in 1..n |->
                 Dict([speaker |-> At(utts[i], "speaker"),
                       text |-> At(utts[i], "text"),
                       start_time |-> PyFloat(F(edge(i - 1))),
                       end_time |-> PyFloat(F(edge(i)))])])

\* the keys the assembler reads with d[key]
AssemblerReads ==
    <<<<"audio_quality", "noise_level">>, <<"audio_quality", "call_stability">>,
      <<"audio_quality", "speech_naturalness">>,
      <<"speaker_analysis", "customer_only_analysis">>,
      <<"speaker_analysis", "agent_influence_detected">>,
      <<"intent", "label">>, <<"intent", "confidence">>,
      <<"intent", "conditionality">>,
      <<"sentiment", "label">>, <<"sentiment", "confidence">>,
      <<"entities", "payment_commitment">>, <<"entities", "amount_mentioned">>,
      <<"risk_assessment", "risk_score">>,
      <<"risk_assessment", "fraud_likelihood">>,
      <<"risk_assessment", "confidence">>>>

\* conversation or []
conversation_or_empty(conversation) ==
    IF conversation = NoneValue THEN <<>> ELSE conversation[2]

\* an assembler that places each phase output whole
CopyWhole(args) ==
    Return(Dict(
        [call_context |-> Dict([call_language |-> args.call_language,
                                call_quality |-> args.audio_quality]),
         speaker_analysis |-> args.speaker_analysis,
         nlp_insights |-> Dict(
             [intent |-> args.intent, sentiment |-> args.sentiment,
              obligation_strength |-> args.obligation_strength,
              entities |-> args.entities,
              contradictions_detected |-> args.contradictions_detected]),
         risk_signals |-> Dict(
             [audio_trust_flags |-> args.audio_trust_flags,
              behavioral_flags |-> args.behavioral_flags]),
         risk_assessment |-> args.risk_assessment,
         summary_for_rag |-> args.summary,
         conversation |-> List(conversation_or_empty(args.conversation))]))

\* args: the keyword arguments of the call, by name
assemble_final_json(args) ==
    LET missing == {i \in 1..Len(AssemblerReads) :
                       ~Has(args[AssemblerReads[i][1]], AssemblerReads[i][2])}
        conversation == conversation_or_empty(args.conversation)
        unreadable == {i \in 1..Len(conversation) :
                          \/ ~Has(conversation[i], "speaker")
                          \/ ~Has(conversation[i], "text")}
    IN  IF missing # {}
        THEN Raise("KeyError", "none", AssemblerReads[Min(missing)][2])
        ELSE IF unreadable # {}
        THEN Raise("KeyError", "none", "speaker or text")
        ELSE Return(Dict(
            [call_context |-> Dict(
                 [call_language |-> args.call_language,
                  call_quality |-> Dict(
                      [noise_level |-> At(args.audio_quality, "noise_level"),
                       call_stability |->
                           At(args.audio_quality, "call_stability"),
                       speech_naturalness |->
                           At(args.audio_quality, "speech_naturalness")])]),
             speaker_analysis |-> Dict(
                 [customer_only_analysis |->
                      At(args.speaker_analysis, "customer_only_analysis"),
                  agent_influence_detected |->
                      At(args.speaker_analysis, "agent_influence_detected")]),
             nlp_insights |-> Dict(
                 [intent |-> Dict(
                      [label |-> At(args.intent, "label"),
                       confidence |-> At(args.intent, "confidence"),
                       conditionality |-> At(args.intent, "conditionality")]),
                  sentiment |-> Dict(
                      [label |-> At(args.sentiment, "label"),
                       confidence |-> At(args.sentiment, "confidence")]),
                  obligation_strength |-> args.obligation_strength,
                  entities |-> Dict(
                      [payment_commitment |->
                           At(args.entities, "payment_commitment"),
                       amount_mentioned |->
                           At(args.entities, "amount_mentioned")]),
                  contradictions_detected |-> args.contradictions_detected]),
             risk_signals |-> Dict(
                 [audio_trust_flags |-> args.audio_trust_flags,
                  behavioral_flags |-> args.behavioral_flags]),
             risk_assessment |-> Dict(
                 [risk_score |-> At(args.risk_assessment, "risk_score"),
                  fraud_likelihood |->
                      At(args.risk_assessment, "fraud_likelihood"),
                  confidence |-> At(args.risk_assessment, "confidence")]),
             summary_for_rag |-> args.summary,
             conversation |->
                 List([i \in 1..Len(conversation) |->
                          Dict([speaker |-> At(conversation[i], "speaker"),
                                text |-> At(conversation[i], "text")])])]))

\* the statements of run_pipeline that call or assign, in program order
Statements ==
    <<"normalize", "analyze_audio_quality", "verify_audio_quality",
      "detect_language", "transcribe", "verify_phase2",
      "structure_semantically", "verify_phase3", "_derive_speaker_analysis",
      "_bridge_phase3_to_phase4", "normalize_utterances", "redact_utterances",
      "verify_phase4", "analyze_sentiment", "verify_phase5",
      "classify_intent", "derive_obligation_strength", "detect_contradictions",
      "extract_entities", "verify_phase6", "build_signal_bundle",
      "compute_risk", "verify_phase7", "_derive_audio_trust_flags",
      "_derive_behavioral_flags", "generate_summary", "verify_phase8",
      "_assemble_final_json">>

\* a pipeline that runs a statement again
Retry(statement) == statement

\* the statement after this one; the last one is followed by the return
successor(statement) ==
    LET i == CHOOSE k \in 1..Len(Statements) : Statements[k] = statement
    IN  IF i = Len(Statements) THEN "returned" ELSE Statements[i + 1]

\* a pipeline that catches what a call raises and carries on
Swallow(out, next) == next

\* run_pipeline has no try block: an exception raised by a call ends it
after(out, next) == IF out.kind = "raise" THEN "raised" ELSE next

\* the section of run_pipeline (PHASE 1 .. PHASE 8, FINAL) a call stands in
PhaseOf ==
    [normalize |-> "1", analyze_audio_quality |-> "1",
     verify_audio_quality |-> "1", detect_language |-> "2",
     transcribe |-> "2", verify_phase2 |-> "2",
     structure_semantically |-> "3", verify_phase3 |-> "3",
     normalize_utterances |-> "4", redact_utterances |-> "4",
     verify_phase4 |-> "4", analyze_sentiment |-> "5",
     verify_phase5 |-> "5", classify_intent |-> "6",
     derive_obligation_strength |-> "6", detect_contradictions |-> "6",
     extract_entities |-> "6", verify_phase6 |-> "6",
     build_signal_bundle |-> "7", compute_risk |-> "7",
     verify_phase7 |-> "7", generate_summary |-> "8",
     verify_phase8 |-> "8", _assemble_final_json |-> "FINAL"]

LocalNames ==
    {"normalized_audio", "audio_quality", "call_language", "transcript",
     "structured_utterances", "speaker_analysis", "phase4_input",
     "normalized_utterances", "phase4_output", "sentiment", "intent",
     "obligation_strength", "contradictions_detected", "entities",
     "signal_bundle", "risk_assessment", "audio_trust_flags",
     "behavioral_flags", "summary", "final_output"}

-----------------------------------------------------------------------------
(* src/src/api/upload.py *)

HTTPException(status_code, detail) ==
    [class |-> "HTTPException", status_code |-> status_code, detail |-> detail]

JSONResponse(status_code, content) ==
    [class |-> "JSONResponse", status_code |-> status_code, content |-> content]

\* the except clauses of analyze_call; a detail is the sequence of the
\* pieces its f-string joins
http_error(exc) ==
    IF exc.type = "AudioValidationError"
    THEN HTTPException(422, <<exc.message>>)
    ELSE IF exc.type = "AudioNormalizationError"
    THEN HTTPException(500, <<exc.message>>)
    ELSE IF exc.type = "PhaseVerificationError"
    THEN HTTPException(500, <<"Pipeline verification error in Phase ",
                              exc.phase, ": ", exc.message>>)
    ELSE IF exc.type = "RuntimeError"
    THEN HTTPException(500, <<exc.message>>)
    ELSE HTTPException(500, <<"Pipeline failed: ", exc.message>>)

\* webhook_response after the POST: None unless the webhook is configured,
\* the POST succeeds and its body parses as JSON
webhook_response(webhook) ==
    IF webhook[1] = "json" THEN webhook[2] ELSE NoneValue

-----------------------------------------------------------------------------
(* Callers of compute_risk: the inputs they draw *)

ConfSteps == 2

\* the confidences a caller draws: a grid over [0, 1]
Confidences == {F((100 * k) \div ConfSteps) : k \in 0..ConfSteps}

\* the bundles build_signal_bundle returns for confidences on the grid
Bundles ==
    [sentiment_label : SentimentLabels,
     sentiment_confidence : Confidences,
     intent_label : IntentLabels,
     intent_confidence : Confidences,
     conditionality : Conditionalities,
     obligation_strength : Obligations,
     contradictions_detected : BOOLEAN,
     noise_level : {"low", "medium", "high"},
     call_stability : {"low", "medium", "high"},
     speech_naturalness : {"normal", "suspicious"}]

\* the bundles whose every signal is at its least or its most risky value
ExtremeBundles ==
    [sentiment_label : {"calm", "evasive"},
     sentiment_confidence : {F(0), F(100)},
     intent_label : {"repayment_promise", "refusal"},
     intent_confidence : {F(0), F(100)},
     conditionality : {"low", "high"},
     obligation_strength : {"strong", "none"},
     contradictions_detected : BOOLEAN,
     noise_level : {"low", "high"},
     call_stability : {"high", "low"},
     speech_naturalness : {"normal", "suspicious"}]

\* the bundles build_signal_bundle returns for a NaN confidence
NaNBundles ==
    [sentiment_label : {"calm"},
     sentiment_confidence : {F(50), NaN},
     intent_label : {"unknown"},
     intent_confidence : {F(50), NaN},
     conditionality : {"low"},
     obligation_strength : {"none"},
     contradictions_detected : BOOLEAN,
     noise_level : {"low"},
     call_stability : {"high"},
     speech_naturalness : {"normal"}]

\* bundles with confidences off the grid: the evasive, deflecting,
\* contradictory caller on a bad line; a cooperative caller; callers whose
\* confidences make 0.4 s + 0.4 i + 0.2 fall between two hundredths
ScenarioBundles ==
    {[sentiment_label |-> "evasive", sentiment_confidence |-> F(90),
      intent_label |-> "deflection", intent_confidence |-> F(85),
      conditionality |-> "high", obligation_strength |-> "none",
      contradictions_detected |-> TRUE, noise_level |-> "high",
      call_stability |-> "low", speech_naturalness |-> "suspicious"],
     [sentiment_label |-> "calm", sentiment_confidence |-> F(95),
      intent_label |-> "repayment_promise", intent_confidence |-> F(90),
      conditionality |-> "low", obligation_strength |-> "strong",
      contradictions_detected |-> FALSE, noise_level |-> "low",
      call_stability |-> "high", speech_naturalness |-> "normal"]}
    \cup
    {[sentiment_label |-> "stressed", sentiment_confidence |-> F(sc),
      intent_label |-> "repayment_delay", intent_confidence |-> F(ic),
      conditionality |-> "medium", obligation_strength |-> "conditional",
      contradictions_detected |-> x, noise_level |-> "low",
      call_stability |-> "high", speech_naturalness |-> "normal"] :
        sc \in {1, 82, 99}, ic \in {1, 85, 98}, x \in BOOLEAN}

Weights(s, i, c, o, x, a) ==
    [sentiment |-> s, intent |-> i, conditionality |-> c,
     obligation |-> o, contradictions |-> x, audio_trust |-> a]

\* weight mappings a caller may pass
WeightArgs ==
    {NoneValue,
     Dict(<<>>),
     Dict(DefaultWeights),
     Dict(Weights(0, 0, 0, 0, 10000, 0)),
     Dict(Weights(15000, -5000, 0, 0, 0, 0)),
     Dict(Weights(-10000, 0, 0, 0, 20000, 0)),
     Dict(Weights(30000, 0, 0, 0, -20000, 0)),
     Dict(Weights(2005, 2000, 1500, 1500, 1500, 1500)),
     Dict(Weights(2015, 2000, 1500, 1500, 1500, 1500)),
     Dict(Weights(1985, 2000, 1500, 1500, 1500, 1500)),
     Dict(Weights(2000, 2000, 1000, 1000, 1000, 1000)),
     Dict([sentiment |-> 2500, intent |-> 2500, conditionality |-> 2500,
           obligation |-> 2500]),
     Dict([sentiment |-> 2000, intent |-> 2000, conditionality |-> 1500,
           obligation |-> 1500, contradictions |-> 1500,
           audio_trust |-> 1500, recency |-> 0])}

RiskFactorThresholds == {500, RISK_FACTOR_THRESHOLD, 9000, 9500}

\* <<high, medium>>: the defaults, a wider band, bounds between two integers
\* and a high bound below the medium one
FraudThresholds ==
    {<<FRAUD_THRESHOLD_HIGH, FRAUD_THRESHOLD_MEDIUM>>, <<8000, 2000>>,
     <<6450, 3450>>, <<2000, 8000>>}

\* the two requests the service is given at once
RequestIds == {1, 2}

\* a request whose thread has not reached phase 7
NoRequest ==
    [pc |-> "waiting", received |-> Unset, phases |-> Unset,
     signal_bundle |-> Unset, risk_assessment |-> Unset,
     final_output |-> Unset, raised |-> Unset]


\* contradictions.py:160-163 with CONTRADICTION_BURST=1; a tick is half of
\* the refill interval
Burst == 1
TicksPerToken == 2
MaxTime == 4
MaxAcquires == 2
Threads == {1, 2}

\* __init__: _tokens = float(burst), _last_refill = time.monotonic()
NewLimiter ==
    [tokens |-> Burst * TicksPerToken, last_refill |-> 0, now |-> 0,
     threads |-> [t \in Threads |-> [pc |-> "idle", wake |-> 0, returned |-> 0]]]

Init ==
    /\ DEFAULT_WEIGHTS = DefaultWeights
    /\ riskPc = "idle"
    /\ riskArgs = Unset
    /\ riskOut = Unset
    /\ riskHistory = <<>>
    /\ verifyPc = "idle"
    /\ verifyArgs = Unset
    /\ verifyOut = Unset
    /\ bundlePc = "idle"
    /\ bundleArgs = Unset
    /\ bundleOut = Unset
    /\ assemblePc = "idle"
    /\ assembleArgs = Unset
    /\ assembleOut = Unset
    /\ requests = [r \in RequestIds |-> NoRequest]
    /\ fnPc = "idle"
    /\ fnArgs = Unset
    /\ fnOut = Unset
    /\ retry = NotCalled
    /\ limiter = NewLimiter
    /\ httpPc = "idle"
    /\ response = Unset
    /\ pipePc = "idle"
    /\ locals = [name \in LocalNames |-> Unset]
    /\ invoked = <<>>
    /\ raised = <<>>
    /\ result = Unset

\* one call compute_risk(bundle, weights, high, medium, factor threshold)
DoCall(bundle, weights, thresholds, rft) ==
    /\ riskArgs' = [bundle |-> bundle, weights |-> weights,
                    fraud_threshold_high |-> thresholds[1],
                    fraud_threshold_medium |-> thresholds[2],
                    risk_factor_threshold |-> rft]
    /\ riskOut' = compute_risk(bundle, weights, thresholds[1], thresholds[2],
                               rft, DEFAULT_WEIGHTS)
    /\ DEFAULT_WEIGHTS' = globals_after_compute_risk(DEFAULT_WEIGHTS, weights)

\* compute_risk(signal_bundle), as run_pipeline calls it (pipeline.py:367)
CallDefault ==
    /\ riskPc = "idle"
    /\ \E bundle \in Bundles \cup ScenarioBundles :
           DoCall(bundle, NoneValue,
                  <<FRAUD_THRESHOLD_HIGH, FRAUD_THRESHOLD_MEDIUM>>,
                  RISK_FACTOR_THRESHOLD)
    /\ riskPc' = "done"
    /\ UNCHANGED <<riskHistory, callerVars, pipeVars>>

\* compute_risk with caller-supplied weights and thresholds
CallConfigured ==
    /\ riskPc = "idle"
    /\ \E bundle \in ExtremeBundles \cup NaNBundles, weights \in WeightArgs,
          thresholds \in FraudThresholds, rft \in RiskFactorThresholds :
           DoCall(bundle, weights, thresholds, rft)
    /\ riskPc' = "done"
    /\ UNCHANGED <<riskHistory, callerVars, pipeVars>>

RiskNext == CallDefault \/ CallConfigured

SpecRisk == Init /\ [][RiskNext]_vars

-----------------------------------------------------------------------------
(* Callers of the phase verifiers: the phase outputs they draw *)

\* the dict of the fields that are set
MakeDict(fields) ==
    Dict([key \in {k \in DOMAIN fields : fields[k] # Unset} |-> fields[key]])

MaxSegments == 2

Segments ==
    {MakeDict([start_time |-> s, end_time |-> e, text |-> t, speaker |-> sp]) :
        s \in {Unset, PyFloat(F(0)), Str("0:00")},
        e \in {Unset, PyFloat(F(150)), NoneValue},
        t \in {Unset, Text(<<"hello">>), Text(<<" ">>), PyInt(7)},
        sp \in {Unset, Str("AGENT")}}
    \cup {Str("hello")}

Transcripts ==
    {List(segs) : segs \in UNION {[1..n -> Segments] : n \in 0..MaxSegments}}
    \cup {NoneValue}

SentimentRecords ==
    {MakeDict([label |-> l, confidence |-> c, risk_score |-> rs,
               fraud_likelihood |-> fl, intent |-> it, reasoning |-> re]) :
        l \in {Unset, Str("calm"), Str("evasive"), Str("happy"), NoneValue},
        c \in {Unset, PyFloat(F(90)), PyFloat(F(150)), PyFloat(F(-10)),
               PyFloat(NaN), PyInt(1), PyBool(TRUE), Str("high")},
        rs \in {Unset, PyInt(50)},
        fl \in {Unset, Str("low")},
        it \in {Unset, Str("refusal")},
        re \in {Unset, Str("short answers")}}
    \cup {NoneValue}

\* well-formed segments whose end_time is above, at or below their start_time
TimedSegments ==
    {MakeDict([start_time |-> PyFloat(F(s)), end_time |-> PyFloat(F(e)),
               text |-> Text(<<"hello">>)]) :
        s \in {0, 200}, e \in {0, 150, 420}}

TimedTranscripts ==
    {List(segs) :
        segs \in UNION {[1..n -> TimedSegments] : n \in 1..MaxSegments}}

Utterances3 ==
    {MakeDict([speaker |-> sp, text |-> t, confidence |-> c]) :
        sp \in {Unset, Str("AGENT"), Str("BOT")},
        t \in {Unset, Text(<<"hello">>), Text(<<" ">>)},
        c \in {Unset, PyFloat(F(92)), PyFloat(F(150))}}
    \cup {Str("hello")}

Utterances4 ==
    {MakeDict([speaker |-> sp, text |-> t, start_time |-> s, end_time |-> e]) :
        sp \in {Unset, Str("CUSTOMER")},
        t \in {Unset, Text(<<"hello">>), PyInt(7)},
        s \in {Unset, PyFloat(F(0))},
        e \in {Unset, PyFloat(F(420))}}
    \cup {NoneValue}

ListsOf(elements) ==
    {List(seq) : seq \in UNION {[1..n -> elements] : n \in 0..MaxSegments}}
    \cup {NoneValue}

IntentRecords ==
    {MakeDict([label |-> l, confidence |-> c, conditionality |-> k,
               risk_score |-> rs]) :
        l \in {Unset, Str("refusal"), Str("bribe")},
        c \in {Unset, PyFloat(F(85)), Str("high")},
        k \in {Unset, Str("low"), Str("extreme")},
        rs \in {Unset, PyInt(50)}}
    \cup {NoneValue}

EntityRecords ==
    {MakeDict([payment_commitment |-> pc, amount_mentioned |-> am]) :
        pc \in {Unset, NoneValue, Str("next_week")},
        am \in {Unset, NoneValue, PyInt(5000)}}
    \cup {NoneValue}

RiskRecords ==
    {MakeDict([risk_score |-> rs, fraud_likelihood |-> fl, confidence |-> c,
               key_risk_factors |-> krf]) :
        rs \in {Unset, PyInt(62), PyInt(150), PyFloat(F(6200)), PyBool(TRUE)},
        fl \in {Unset, Str("medium"), Str("extreme")},
        c \in {Unset, PyFloat(F(85)), PyFloat(F(150)), PyFloat(NaN)},
        krf \in {Unset, List(<<Str("risky_intent")>>), Str("risky_intent")}}
    \cup {NoneValue}

Summaries ==
    {Text(<<"Customer", " ", "promised", " ", "payment", ".">>),
     Text(<<"Customer", " ", "promised", " ", "payment", ".", "\n">>),
     Text(<<"Customer", " ", "promised", " ", "payment">>),
     Text(<<"The", " ", "customer", " ", "Lied", " ", "again", ".">>),
     Text(<<"Customer", " ", "lied", ".">>),
     Text(<<"The", " ", "fraudster", ",", " ", "again", ",", " ", "called", ".">>),
     Text(<<" ", "\t">>), Text(<<>>), NoneValue, PyInt(7)}

AudioQualityRecords ==
    {MakeDict([noise_level |-> n, call_stability |-> c,
               speech_naturalness |-> sn]) :
        n \in {Unset, Str("low"), Str("loud"), NoneValue},
        c \in {Unset, Str("high"), Str("unstable")},
        sn \in {Unset, Str("suspicious"), Str("robot")}}
    \cup {NoneValue}

\* one call of a verifier on one input
CallVerifier(verifier, input, out) ==
    /\ verifyPc' = "done"
    /\ verifyArgs' = [verifier |-> verifier, input |-> input,
                      after |-> argument_after_verify(input)]
    /\ verifyOut' = out
    /\ UNCHANGED <<riskVars, bundleVars, assembleVars, requests, laterVars, pipeVars>>

CallVerifyAudioQuality ==
    /\ verifyPc = "idle"
    /\ \E quality \in AudioQualityRecords :
           CallVerifier("verify_audio_quality", quality,
                        verify_audio_quality(quality))

CallVerifyPhase2 ==
    /\ verifyPc = "idle"
    /\ \E transcript \in Transcripts \cup TimedTranscripts :
           CallVerifier("verify_phase2", transcript, verify_phase2(transcript))

CallVerifyPhase3 ==
    /\ verifyPc = "idle"
    /\ \E structured \in ListsOf(Utterances3) :
           CallVerifier("verify_phase3", structured, verify_phase3(structured))

CallVerifyPhase4 ==
    /\ verifyPc = "idle"
    /\ \E utterances \in ListsOf(Utterances4) :
           CallVerifier("verify_phase4", utterances, verify_phase4(utterances))

CallVerifyPhase5 ==
    /\ verifyPc = "idle"
    /\ \E sentiment \in SentimentRecords :
           CallVerifier("verify_phase5", sentiment, verify_phase5(sentiment))

\* the four arguments of verify_phase6 travel as one tagged record
CallVerifyPhase6 ==
    /\ verifyPc = "idle"
    /\ \E intent \in IntentRecords,
          obligation_strength \in {Str("weak"), Str("maybe"), NoneValue},
          contradictions_detected \in {PyBool(FALSE), Str("no")},
          entities \in EntityRecords :
           CallVerifier("verify_phase6",
                        <<"args", [intent |-> intent,
                                   obligation_strength |-> obligation_strength,
                                   contradictions_detected |->
                                       contradictions_detected,
                                   entities |-> entities]>>,
                        verify_phase6(intent, obligation_strength,
                                      contradictions_detected, entities))

CallVerifyPhase7 ==
    /\ verifyPc = "idle"
    /\ \E risk_assessment \in RiskRecords :
           CallVerifier("verify_phase7", risk_assessment,
                        verify_phase7(risk_assessment))

CallVerifyPhase8 ==
    /\ verifyPc = "idle"
    /\ \E summary \in Summaries :
           CallVerifier("verify_phase8", summary, verify_phase8(summary))

VerifyNext ==
    \/ CallVerifyAudioQuality
    \/ CallVerifyPhase2 \/ CallVerifyPhase3 \/ CallVerifyPhase4
    \/ CallVerifyPhase5 \/ CallVerifyPhase6 \/ CallVerifyPhase7
    \/ CallVerifyPhase8

SpecVerify == Init /\ [][VerifyNext]_vars

-----------------------------------------------------------------------------
(* Callers of build_signal_bundle: the phase outputs they draw *)

SentimentArgs ==
    {MakeDict([label |-> l, confidence |-> c]) :
        l \in {Unset, Str("stressed"), Str("happy"), NoneValue},
        c \in {Unset, PyFloat(F(82)), PyFloat(F(150)), PyFloat(NaN),
               PyInt(1), Str("high")}}
    \cup {NoneValue}

IntentArgs ==
    {MakeDict([label |-> l, confidence |-> c, conditionality |-> k]) :
        l \in {Unset, Str("repayment_delay"), Str("bribe")},
        c \in {Unset, PyFloat(F(85)), PyFloat(F(-10)), PyFloat(NaN)},
        k \in {Unset, Str("medium"), Str("extreme")}}
    \cup {NoneValue}

ObligationArgs == {Str("conditional"), Str("maybe"), NoneValue}

ContradictionArgs == {PyBool(FALSE), PyBool(TRUE), Str("yes"), PyInt(1)}

AudioQualityArgs ==
    {MakeDict([noise_level |-> n, call_stability |-> c,
               speech_naturalness |-> sn]) :
        n \in {Unset, Str("low"), Str("extreme")},
        c \in {Unset, Str("high"), Str("unstable")},
        sn \in {Unset, Str("normal"), Str("robot")}}
    \cup {NoneValue}

CallBuildSignalBundle ==
    /\ bundlePc = "idle"
    /\ bundlePc' = "done"
    /\ \E sentiment \in SentimentArgs, intent \in IntentArgs,
          obligation_strength \in ObligationArgs,
          contradictions_detected \in ContradictionArgs,
          audio_quality \in AudioQualityArgs :
          /\ bundleArgs' =
                 [sentiment |-> sentiment, intent |-> intent,
                  obligation_strength |-> obligation_strength,
                  contradictions_detected |-> contradictions_detected,
                  audio_quality |-> audio_quality]
          /\ bundleOut' =
                 build_signal_bundle(sentiment, intent, obligation_strength,
                                     contradictions_detected, audio_quality)
    /\ UNCHANGED <<riskVars, verifyVars, assembleVars, requests, laterVars, pipeVars>>

BundleNext == CallBuildSignalBundle

SpecBundle == Init /\ [][BundleNext]_vars

-----------------------------------------------------------------------------
(* Callers of _assemble_final_json: the phase outputs they pass *)

\* the dict without one of its keys
Without(d, key) == Dict([k \in DOMAIN d[2] \ {key} |-> d[2][k]])

\* the dict with one more key
With(d, key, value) ==
    Dict([k \in DOMAIN d[2] \cup {key} |-> IF k = key THEN value ELSE d[2][k]])

ValidAudioQuality ==
    Dict([noise_level |-> Str("low"), call_stability |-> Str("high"),
          speech_naturalness |-> Str("normal")])

ValidSpeakerAnalysis ==
    Dict([customer_only_analysis |-> PyBool(TRUE),
          agent_influence_detected |-> PyBool(FALSE)])

ValidIntent ==
    Dict([label |-> Str("repayment_promise"), confidence |-> PyFloat(F(90)),
          conditionality |-> Str("high")])

ValidSentiment ==
    Dict([label |-> Str("stressed"), confidence |-> PyFloat(F(82))])

ValidEntities ==
    Dict([payment_commitment |-> Str("next_week"),
          amount_mentioned |-> PyInt(5000)])

NullEntities ==
    Dict([payment_commitment |-> NoneValue, amount_mentioned |-> NoneValue])

ValidRisk ==
    Dict([risk_score |-> PyInt(62), fraud_likelihood |-> Str("medium"),
          confidence |-> PyFloat(F(85)),
          key_risk_factors |-> List(<<Str("conditional_commitment")>>)])

\* phase-4 utterances, with the timing and chunk keys they carry
Conversations ==
    {NoneValue,
     List(<<>>),
     List(<<Dict([speaker |-> Str("AGENT"), text |-> Text(<<"Hello">>),
                  start_time |-> PyFloat(F(0)), end_time |-> PyFloat(F(420)),
                  chunk_id |-> PyInt(0)]),
            Dict([speaker |-> Str("CUSTOMER"),
                  text |-> Text(<<"<REDACTED>">>),
                  start_time |-> PyFloat(F(420)),
                  end_time |-> PyFloat(F(810)), call_id |-> Str("c-17")])>>),
     List(<<Dict([speaker |-> Str("AGENT")])>>)}

CallAssembleFinalJson ==
    /\ assemblePc = "idle"
    /\ assemblePc' = "done"
    /\ \E audio_quality \in
              {ValidAudioQuality, With(ValidAudioQuality, "call_id", Str("c-17")),
               Without(ValidAudioQuality, "noise_level")},
          speaker_analysis \in
              {ValidSpeakerAnalysis,
               Without(ValidSpeakerAnalysis, "agent_influence_detected")},
          intent \in
              {ValidIntent, With(ValidIntent, "customer_id", PyInt(7)),
               Without(ValidIntent, "conditionality")},
          sentiment \in
              {ValidSentiment,
               With(ValidSentiment, "reasoning", Str("short answers")),
               Without(ValidSentiment, "confidence")},
          entities \in
              {ValidEntities, NullEntities,
               With(NullEntities, "loan_id", Str("L-9")),
               Without(ValidEntities, "amount_mentioned")},
          risk_assessment \in
              {ValidRisk, With(ValidRisk, "call_id", Str("c-17")),
               Without(ValidRisk, "confidence")},
          conversation \in Conversations :
          LET args == [call_language |-> Text(<<"hinglish">>),
                       audio_quality |-> audio_quality,
                       speaker_analysis |-> speaker_analysis,
                       sentiment |-> sentiment,
                       intent |-> intent,
                       obligation_strength |-> Str("weak"),
                       entities |-> entities,
                       contradictions_detected |-> PyBool(TRUE),
                       audio_trust_flags |->
                           List(<<Str("low_call_stability")>>),
                       behavioral_flags |->
                           List(<<Str("conditional_commitment")>>),
                       risk_assessment |-> risk_assessment,
                       summary |-> Text(<<"Customer", " ", "promised", ".">>),
                       conversation |-> conversation]
          IN  /\ assembleArgs' = args
              /\ assembleOut' = assemble_final_json(args)
    /\ UNCHANGED <<riskVars, verifyVars, bundleVars, requests, laterVars, pipeVars>>

AssembleNext == CallAssembleFinalJson

SpecAssemble == Init /\ [][AssembleNext]_vars

-----------------------------------------------------------------------------
(* Two requests served at once: analyze_call hands each run_pipeline to a
   thread (upload.py:97-101). Each thread holds its phase outputs in locals;
   the scorer's DEFAULT_WEIGHTS is the one object both threads reach. *)

\* the outputs of phases 1 to 6 and 8 as a request holds them before phase 7
PhaseOutputs(sentiment, intent, obligation_strength, contradictions_detected, audio_quality) ==
    [sentiment |-> sentiment, intent |-> intent,
     obligation_strength |-> obligation_strength,
     contradictions_detected |-> contradictions_detected,
     audio_quality |-> audio_quality,
     call_language |-> Text(<<"hinglish">>),
     speaker_analysis |-> ValidSpeakerAnalysis,
     entities |-> ValidEntities,
     summary |-> Text(<<"Customer", " ", "promised", ".">>),
     conversation |->
         List(<<Dict([speaker |-> Str("CUSTOMER"),
                      text |-> Text(<<"Hello">>)])>>)]

\* a cooperative caller, an evasive one on a bad line, a stressed one, and a
\* sentiment whose confidence is NaN (it passes verify_phase5)
RequestPhases ==
    {PhaseOutputs(Dict([label |-> Str("calm"), confidence |-> PyFloat(F(95))]),
                  Dict([label |-> Str("repayment_promise"),
                        confidence |-> PyFloat(F(90)),
                        conditionality |-> Str("low")]),
                  Str("strong"), PyBool(FALSE), ValidAudioQuality),
     PhaseOutputs(Dict([label |-> Str("evasive"),
                        confidence |-> PyFloat(F(90))]),
                  Dict([label |-> Str("deflection"),
                        confidence |-> PyFloat(F(85)),
                        conditionality |-> Str("high")]),
                  Str("none"), PyBool(TRUE),
                  Dict([noise_level |-> Str("high"),
                        call_stability |-> Str("low"),
                        speech_naturalness |-> Str("suspicious")])),
     PhaseOutputs(ValidSentiment,
                  Dict([label |-> Str("repayment_delay"),
                        confidence |-> PyFloat(F(85)),
                        conditionality |-> Str("medium")]),
                  Str("conditional"), PyBool(FALSE), ValidAudioQuality),
     PhaseOutputs(Dict([label |-> Str("stressed"),
                        confidence |-> PyFloat(NaN)]),
                  ValidIntent, Str("weak"), PyBool(TRUE), ValidAudioQuality)}

\* the keyword arguments of pipeline.py:411-425
FinalArgs(phases, risk_assessment) ==
    [call_language |-> phases.call_language,
     audio_quality |-> phases.audio_quality,
     speaker_analysis |-> phases.speaker_analysis,
     sentiment |-> phases.sentiment,
     intent |-> phases.intent,
     obligation_strength |-> phases.obligation_strength,
     entities |-> phases.entities,
     contradictions_detected |-> phases.contradictions_detected,
     audio_trust_flags |-> derive_audio_trust_flags(phases.audio_quality),
     behavioral_flags |->
         derive_behavioral_flags(At(risk_assessment, "key_risk_factors"),
                                 phases.contradictions_detected),
     risk_assessment |-> risk_assessment,
     summary |-> phases.summary,
     conversation |-> phases.conversation]

\* what a thread does when a call raises: the exception leaves run_pipeline
Fail(r, error) ==
    requests' = [requests EXCEPT ![r].pc = "failed", ![r].raised = error]

\* the thread of request r starts phase 7 with its own phase outputs
RequestReachesPhase7(r) ==
    /\ requests[r].pc = "waiting"
    /\ \E phases \in RequestPhases :
           requests' = [requests EXCEPT ![r].pc = "build",
                                        ![r].received = phases,
                                        ![r].phases = phases]
    /\ UNCHANGED <<riskVars, verifyVars, bundleVars, assembleVars, laterVars,
                   pipeVars>>

\* signal_bundle = build_signal_bundle(...) (pipeline.py:359-365)
RequestBuildsBundle(r) ==
    /\ requests[r].pc = "build"
    /\ LET phases == requests[r].phases
           out == build_signal_bundle(phases.sentiment, phases.intent,
                                      phases.obligation_strength,
                                      phases.contradictions_detected,
                                      phases.audio_quality)
       IN  IF out.kind = "raise" THEN Fail(r, out)
           ELSE requests' = [requests EXCEPT ![r].pc = "score",
                                             ![r].signal_bundle = out.value]
    /\ UNCHANGED <<riskVars, verifyVars, bundleVars, assembleVars, laterVars,
                   pipeVars>>

\* risk_assessment = compute_risk(signal_bundle) (pipeline.py:367): the
\* weights are the module's DEFAULT_WEIGHTS as they are when the thread runs
RequestComputesRisk(r) ==
    /\ requests[r].pc = "score"
    /\ LET out == compute_risk(requests[r].signal_bundle, NoneValue,
                               FRAUD_THRESHOLD_HIGH, FRAUD_THRESHOLD_MEDIUM,
                               RISK_FACTOR_THRESHOLD, DEFAULT_WEIGHTS)
       IN  IF out.kind = "raise" THEN Fail(r, out)
           ELSE requests' =
                    [requests EXCEPT ![r].pc = "assemble",
                                     ![r].risk_assessment =
                                         risk_assessment_dict(out.value)]
    /\ DEFAULT_WEIGHTS' =
           globals_after_compute_risk(
               active_weights_after_scoring(DEFAULT_WEIGHTS), NoneValue)
    /\ UNCHANGED <<riskPc, riskArgs, riskOut, riskHistory, verifyVars,
                   bundleVars, assembleVars, laterVars, pipeVars>>

\* final_output = _assemble_final_json(...) (pipeline.py:411-425)
RequestAssembles(r) ==
    /\ requests[r].pc = "assemble"
    /\ LET out == assemble_final_json(
                      FinalArgs(requests[r].phases,
                                requests[r].risk_assessment))
       IN  IF out.kind = "raise" THEN Fail(r, out)
           ELSE requests' = [requests EXCEPT ![r].pc = "done",
                                             ![r].final_output = out.value]
    /\ UNCHANGED <<riskVars, verifyVars, bundleVars, assembleVars, laterVars,
                   pipeVars>>

ConcurrentNext ==
    \E r \in RequestIds :
        \/ RequestReachesPhase7(r)
        \/ RequestBuildsBundle(r)
        \/ RequestComputesRisk(r)
        \/ RequestAssembles(r)

SpecConcurrent == Init /\ [][ConcurrentNext]_vars

-----------------------------------------------------------------------------
(* Callers of _derive_behavioral_flags: every short list of factor labels,
   with repetitions and a label the flag map does not hold, and both flags;
   the flags are then placed in a final record as run_pipeline does *)

MaxFactors == 3

FactorChoices ==
    {"high_emotional_stress", "risky_intent", "conditional_commitment",
     "weak_obligation", "contradictory_statements", "suspicious_audio_signals"}

FactorLists ==
    UNION {[1..n -> {Str(f) : f \in FactorChoices}] : n \in 0..MaxFactors}

CallDeriveBehavioralFlags ==
    /\ fnPc = "idle"
    /\ fnPc' = "done"
    /\ \E factors \in FactorLists, contradictions_detected \in BOOLEAN :
           LET phases == PhaseOutputs(ValidSentiment, ValidIntent, Str("weak"),
                                      PyBool(contradictions_detected),
                                      ValidAudioQuality)
               risk_assessment == With(ValidRisk, "key_risk_factors",
                                       List(factors))
           IN  /\ fnArgs' = [function |-> "_derive_behavioral_flags",
                             key_risk_factors |-> List(factors),
                             contradictions_detected |->
                                 PyBool(contradictions_detected)]
               /\ fnOut' = [flags |->
                                derive_behavioral_flags(
                                    List(factors),
                                    PyBool(contradictions_detected)),
                            final_output |->
                                assemble_final_json(
                                    FinalArgs(phases, risk_assessment))]
    /\ UNCHANGED <<riskVars, verifyVars, bundleVars, assembleVars, requests,
                   retry, limiter, pipeVars>>

FlagsNext == CallDeriveBehavioralFlags

SpecFlags == Init /\ [][FlagsNext]_vars

-----------------------------------------------------------------------------
(* Callers of derive_obligation_strength: intent records over the labels and
   conditionalities, with absent and unknown values, and short conversations
   of customer and agent utterances with and without markers *)

MaxUtterances == 2

ObligationIntents ==
    {MakeDict([label |-> l, confidence |-> PyFloat(F(90)),
               conditionality |-> c]) :
        l \in VALID_INTENT_LABELS \cup {Unset, Str("bribe")},
        c \in {Unset, Str("low"), Str("medium"), Str("high")}}

SpokenTexts ==
    {<<"I", " ", "promise">>, <<"Definitely", " ", "maybe">>,
     <<"maybe", " ", "not", " ", "sure">>, <<"If", " ", "possible">>,
     <<"Tomorrow", " ", "I", " ", "will", " ", "clear">>, <<"Hello", " ">>}

SpokenUtterances ==
    {MakeDict([speaker |-> sp, text |-> Text(t)]) :
        sp \in {Str("CUSTOMER"), Str("customer"), Str("AGENT")},
        t \in SpokenTexts}

CallDeriveObligationStrength ==
    /\ fnPc = "idle"
    /\ fnPc' = "done"
    /\ \E intent_result \in ObligationIntents,
          n \in 0..MaxUtterances :
          \E utterances \in [1..n -> SpokenUtterances] :
              /\ fnArgs' = [function |-> "derive_obligation_strength",
                            intent_result |-> intent_result,
                            utterances |-> utterances]
              /\ fnOut' = obligation_strength_of(intent_result, utterances)
    /\ UNCHANGED <<riskVars, verifyVars, bundleVars, assembleVars, requests,
                   retry, limiter, pipeVars>>

ObligationNext == CallDeriveObligationStrength

SpecObligation == Init /\ [][ObligationNext]_vars

-----------------------------------------------------------------------------
(* chat_completions_with_retry, one statement at a time: the provider's
   answer to each call is drawn *)

ProviderOutcomes ==
    {Return(Str("ChatCompletion")),
     ProviderError("RateLimitError", TRUE, 429, {429}),
     ProviderError("InternalServerError", TRUE, 503, {}),
     ProviderError("BadRequestError", TRUE, 400, {}),
     ProviderError("ConnectionResetError", FALSE, 0, {}),
     ProviderError("RuntimeError", FALSE, 0, {502})}

\* last_exc = None; delay = BASE_DELAY; the first iteration of the loop
EnterRetryLoop ==
    /\ retry.pc = "idle"
    /\ retry' = [retry EXCEPT !.pc = "call"]
    /\ UNCHANGED <<riskVars, verifyVars, bundleVars, assembleVars, requests,
                   helperVars, limiter, pipeVars>>

\* client.chat.completions.create(**kwargs) and the except clause up to the
\* sleep (openai_retry.py:105-129); after the last iteration, raise last_exc
CallProvider ==
    /\ retry.pc = "call"
    /\ \E outcome \in ProviderOutcomes :
           LET called == [retry EXCEPT !.calls = Append(@, outcome)]
           IN  retry' =
                   IF outcome.kind = "return"
                   THEN [called EXCEPT !.pc = "done", !.out = outcome]
                   ELSE IF ~is_retryable(outcome)
                   THEN [called EXCEPT !.pc = "done", !.out = outcome]
                   ELSE IF retry.attempt < MAX_RETRIES
                   THEN [called EXCEPT !.pc = "sleep"]
                   ELSE [called EXCEPT !.pc = "done", !.out = outcome]
    /\ UNCHANGED <<riskVars, verifyVars, bundleVars, assembleVars, requests,
                   helperVars, limiter, pipeVars>>

\* time.sleep(delay); delay = min(delay * BACKOFF_FACTOR, MAX_DELAY); the
\* next iteration
SleepThenRetry ==
    /\ retry.pc = "sleep"
    /\ retry' = [retry EXCEPT
                     !.pc = "call",
                     !.sleeps = Append(@, retry.delay),
                     !.delay = IF retry.delay * BACKOFF_FACTOR < MAX_DELAY
                               THEN retry.delay * BACKOFF_FACTOR
                               ELSE MAX_DELAY,
                     !.attempt = @ + 1]
    /\ UNCHANGED <<riskVars, verifyVars, bundleVars, assembleVars, requests,
                   helperVars, limiter, pipeVars>>

RetryNext == EnterRetryLoop \/ CallProvider \/ SleepThenRetry

\* a thread that can run does run, and a sleep ends
SpecRetry == Init /\ [][RetryNext]_vars /\ WF_vars(RetryNext)

-----------------------------------------------------------------------------
(* _AdaptiveRateLimiter (contradictions.py:49-155) shared by the threads that
   call acquire().  Time is counted in ticks, TicksPerToken ticks to the
   interval, and tokens in ticks' worth: one whole token is TicksPerToken. *)

\* _refill: add the tokens of the time elapsed, up to the burst
refill(l) ==
    LET new_tokens == l.now - l.last_refill
    IN  IF new_tokens > 0
        THEN [l EXCEPT !.tokens = Min({l.tokens + new_tokens, Burst * TicksPerToken}),
                       !.last_refill = l.now]
        ELSE l

\* acquire, the first block under the lock: refill, then either take a token
\* and return, or compute the wait and leave the lock to sleep
AcquireUnderLock(t) ==
    /\ limiter.threads[t].pc = "idle"
    /\ limiter.threads[t].returned < MaxAcquires
    /\ LET l == refill(limiter)
       IN  limiter' =
               IF l.tokens >= TicksPerToken
               THEN [l EXCEPT !.tokens = @ - TicksPerToken,
                              !.threads[t].returned = @ + 1]
               ELSE [l EXCEPT !.threads[t].pc = "sleeping",
                              !.threads[t].wake = l.now + (TicksPerToken - l.tokens)]
    /\ UNCHANGED <<riskVars, verifyVars, bundleVars, assembleVars, requests,
                   helperVars, retry, pipeVars>>

\* acquire, after time.sleep(wait): the second block under the lock, refill
\* and self._tokens = max(self._tokens - 1.0, 0.0), then return
AcquireAfterSleep(t) ==
    /\ limiter.threads[t].pc = "sleeping"
    /\ limiter.now >= limiter.threads[t].wake
    /\ LET l == refill(limiter)
       IN  limiter' = [l EXCEPT !.tokens = IF @ - TicksPerToken > 0
                                           THEN @ - TicksPerToken ELSE 0,
                                !.threads[t].pc = "idle",
                                !.threads[t].returned = @ + 1]
    /\ UNCHANGED <<riskVars, verifyVars, bundleVars, assembleVars, requests,
                   helperVars, retry, pipeVars>>

\* time.monotonic() advances
Tick ==
    /\ limiter.now < MaxTime
    /\ limiter' = [limiter EXCEPT !.now = @ + 1]
    /\ UNCHANGED <<riskVars, verifyVars, bundleVars, assembleVars, requests,
                   helperVars, retry, pipeVars>>

LimiterNext ==
    \/ \E t \in Threads : AcquireUnderLock(t)
    \/ \E t \in Threads : AcquireAfterSleep(t)
    \/ Tick

SpecLimiter == Init /\ [][LimiterNext]_vars

-----------------------------------------------------------------------------
(* summary_generator.py: the summary for the final record, written by the
   language model when its text passes _validate_summary and by the
   template otherwise *)

GENERATOR_VALID_INTENT_LABELS ==
    {Str("repayment_promise"), Str("repayment_delay"), Str("refusal"),
     Str("deflection"), Str("information_seeking"), Str("dispute"),
     Str("unknown")}

GENERATOR_VALID_CONDITIONALITY ==
    {Str("low"), Str("medium"), Str("high")}

GENERATOR_VALID_OBLIGATION ==
    {Str("strong"), Str("weak"), Str("conditional"), Str("none")}

VALID_FRAUD_LIKELIHOOD ==
    {Str("low"), Str("medium"), Str("high")}

VALID_RISK_FACTORS ==
    {Str("high_emotional_stress"), Str("risky_intent"),
     Str("conditional_commitment"), Str("weak_obligation"),
     Str("contradictory_statements"), Str("suspicious_audio_signals")}

\* the words _validate_summary looks for
GENERATOR_BANNED_WORDS ==
    {"fraudster", "fraud", "lied", "lying", "scam", "scammer",
     "criminal", "guilty", "dishonest", "cheat", "cheating", "thief",
     "steal", "stealing", "deceive", "deceiving", "deceptive",
     "malicious"}

INTENT_PHRASES ==
    [repayment_promise |-> <<"a", " ", "repayment", " ", "promise">>,
     repayment_delay |-> <<"a", " ", "request", " ", "to", " ", "delay", " ", "repayment">>,
     refusal |-> <<"a", " ", "refusal", " ", "to", " ", "pay">>,
     deflection |-> <<"deflective", " ", "responses">>,
     information_seeking |-> <<"information", "-", "seeking", " ", "behavior">>,
     dispute |-> <<"a", " ", "dispute", " ", "regarding", " ", "the", " ", "obligation">>,
     unknown |-> <<"unclear", " ", "intent">>]

OBLIGATION_PHRASES ==
    [strong |-> <<"strong", " ", "commitment">>,
     weak |-> <<"weak", " ", "commitment">>,
     conditional |-> <<"conditional", " ", "commitment">>,
     none |-> <<"no", " ", "discernible", " ", "commitment">>]

CONDITIONALITY_PHRASES ==
    [low |-> <<"low", " ", "conditionality">>,
     medium |-> <<"moderate", " ", "conditionality">>,
     high |-> <<"high", " ", "conditionality">>]

FRAUD_PHRASES ==
    [low |-> <<"low", " ", "risk">>,
     medium |-> <<"moderate", " ", "risk">>,
     high |-> <<"elevated", " ", "risk">>]

RISK_FACTOR_PHRASES ==
    [high_emotional_stress |-> <<"elevated", " ", "stress">>,
     risky_intent |-> <<"risky", " ", "intent", " ", "signals">>,
     conditional_commitment |-> <<"conditional", " ", "commitment", " ", "patterns">>,
     weak_obligation |-> <<"unreliable", " ", "commitment">>,
     contradictory_statements |-> <<"contradictions">>,
     suspicious_audio_signals |-> <<"suspicious", " ", "audio", " ", "characteristics">>]

\* _validate_inputs: the first violated contract raises ValueError
validate_inputs(intent_label, conditionality, obligation_strength, contradictions_detected, risk_score, likelihood, factors) ==
    IF intent_label \notin GENERATOR_VALID_INTENT_LABELS
    THEN Raise("ValueError", "none", "Invalid intent_label")
    ELSE IF conditionality \notin GENERATOR_VALID_CONDITIONALITY
    THEN Raise("ValueError", "none", "Invalid conditionality")
    ELSE IF obligation_strength \notin GENERATOR_VALID_OBLIGATION
    THEN Raise("ValueError", "none", "Invalid obligation_strength")
    ELSE IF ~IsBool(contradictions_detected)
    THEN Raise("ValueError", "none", "contradictions_detected must be bool")
    ELSE IF ~IsInt(risk_score)
    THEN Raise("ValueError", "none", "risk_score must be int")
    ELSE IF risk_score[1] = "int" /\ (risk_score[2] < 0 \/ risk_score[2] > 100)
    THEN Raise("ValueError", "none", "risk_score out of range [0, 100]")
    ELSE IF likelihood \notin VALID_FRAUD_LIKELIHOOD
    THEN Raise("ValueError", "none", "Invalid fraud_likelihood")
    ELSE IF factors[1] # "list"
    THEN Raise("ValueError", "none", "key_risk_factors must be a list")
    ELSE IF \E i \in 1..Len(factors[2]) :
                factors[2][i] \notin VALID_RISK_FACTORS
    THEN Raise("ValueError", "none", "Invalid risk factor")
    ELSE Passed

\* the lookup key of a label
Key(label) == IF label[1] = "str" THEN label[2] ELSE "?"

\* for phrase in phrases: if phrase not in qualifiers: qualifiers.append(phrase)
RECURSIVE AppendNew(_, _)
AppendNew(qualifiers, phrases) ==
    IF phrases = <<>> THEN qualifiers
    ELSE AppendNew(IF \E i \in 1..Len(qualifiers) : qualifiers[i] = Head(phrases)
                   THEN qualifiers
                   ELSE Append(qualifiers, Head(phrases)),
                   Tail(phrases))

\* " and ".join(qualifiers)
RECURSIVE JoinWithAnd(_)
JoinWithAnd(texts) ==
    IF texts = <<>> THEN <<>>
    ELSE IF Len(texts) = 1 THEN texts[1]
    ELSE texts[1] \o <<" ", "and", " ">> \o JoinWithAnd(Tail(texts))

\* a template whose sentence is left without its final period
UnfinishedTemplate(intent_label, conditionality, obligation_strength, contradictions_detected, likelihood, factors) ==
    Text(<<"Customer", " ", "expressed", " ">>
         \o Get(INTENT_PHRASES, Key(intent_label), <<"unclear", " ", "intent">>))

\* _generate_template_summary
generate_template_summary(intent_label, conditionality, obligation_strength, contradictions_detected, likelihood, factors) ==
    LET intent_phrase ==
            Get(INTENT_PHRASES, Key(intent_label), <<"unclear", " ", "intent">>)
        obligation_phrase ==
            Get(OBLIGATION_PHRASES, Key(obligation_strength),
                <<"uncertain", " ", "commitment">>)
        fraud_phrase ==
            Get(FRAUD_PHRASES, Key(likelihood), <<"uncertain", " ", "risk">>)
        first ==
            <<Get(CONDITIONALITY_PHRASES, Key(conditionality),
                  <<"uncertain", " ", "conditionality">>)>>
        second ==
            IF Truth(contradictions_detected)
            THEN Append(first, <<"contradictions", " ", "in", " ", "statements">>)
            ELSE first
        known == SelectSeq(factors[2],
                           LAMBDA f : Key(f) \in DOMAIN RISK_FACTOR_PHRASES)
        factor_phrases == [i \in 1..Len(known) |-> RISK_FACTOR_PHRASES[Key(known[i])]]
        qualifiers ==
            AppendNew(second, SubSeq(factor_phrases, 1, Min({2, Len(factor_phrases)})))
        qualifier_str ==
            IF qualifiers # <<>> THEN JoinWithAnd(qualifiers)
            ELSE <<"noted", " ", "signals">>
        action ==
            IF likelihood = Str("high")
            THEN <<"requiring", " ", "further", " ", "review">>
            ELSE IF likelihood = Str("medium")
            THEN <<"warranting", " ", "closer", " ", "attention">>
            ELSE <<"within", " ", "normal", " ", "parameters">>
    IN  Text(<<"Customer", " ", "expressed", " ">> \o intent_phrase
             \o <<" ", "with", " ">> \o obligation_phrase
             \o <<",", " ", "showing", " ">> \o qualifier_str
             \o <<",", " ", "indicating", " ">> \o fraud_phrase
             \o <<" ", "and", " ">> \o action \o <<".">>)

\* the runs of digits the texts contain, with their lengths
DigitRuns == [n \in {"5", "78", "5000"} |-> IF n = "5" THEN 1 ELSE IF n = "78" THEN 2 ELSE 4]

\* characters that are not \w: a digit run next to them starts or ends at a \b
NonWord == Whitespace \cup {".", ",", "!", "?", "-"}

\* re.search(r'\b\d{1,3}\b', summary)
HasShortNumber(atoms) ==
    \E i \in 1..Len(atoms) :
        /\ atoms[i] \in DOMAIN DigitRuns
        /\ DigitRuns[atoms[i]] <= 3
        /\ (i = 1 \/ atoms[i - 1] \in NonWord)
        /\ (i = Len(atoms) \/ atoms[i + 1] \in NonWord)

\* _validate_summary
validate_summary(summary) ==
    LET atoms == summary[2]
        words == Split(Lower(atoms))
        stripped == Strip(atoms)
        Count(chars) == Cardinality({i \in 1..Len(stripped) : stripped[i] \in chars})
    IN  IF atoms = <<>>
        THEN Raise("ValueError", "none", "Summary is empty")
        ELSE IF \E word \in GENERATOR_BANNED_WORDS, i \in 1..Len(words) :
                    words[i] = <<word>>
        THEN Raise("ValueError", "none", "Summary contains banned word")
        ELSE IF HasShortNumber(atoms)
        THEN Raise("ValueError", "none", "Summary contains numeric values")
        ELSE IF stripped = <<>> \/ stripped[Len(stripped)] # "."
        THEN Raise("ValueError", "none", "Summary must end with a period")
        ELSE IF Count({".", "!", "?"}) > 1 /\ Count({"."}) > 1
        THEN Raise("ValueError", "none", "Summary must be exactly one sentence")
        ELSE Return(Text(stripped))

\* _call_openai as the module is built: without the key EnvironmentError;
\* with it, the name OpenAI is looked up and the module never imports it
call_openai(api_key_set) ==
    IF ~api_key_set
    THEN Raise("OSError", "none", "OPENAI_API_KEY not set")
    ELSE Raise("NameError", "none", "name 'OpenAI' is not defined")

\* generate_summary, given what its call of _call_openai does
generate_summary(inputs, openai) ==
    LET checked ==
            validate_inputs(inputs.intent_label, inputs.conditionality,
                            inputs.obligation_strength,
                            inputs.contradictions_detected, inputs.risk_score,
                            inputs.fraud_likelihood, inputs.key_risk_factors)
        validated == validate_summary(openai.value)
    IN  IF checked # Passed THEN checked
        ELSE IF openai.kind = "return" /\ validated.kind = "return"
        THEN validated
        ELSE Return(generate_template_summary(
                        inputs.intent_label, inputs.conditionality,
                        inputs.obligation_strength,
                        inputs.contradictions_detected,
                        inputs.fraud_likelihood, inputs.key_risk_factors))

\* the key_risk_factors compute_risk can return: the labels of the dimensions
\* that met the threshold, in the order of the dimensions
SummaryFactorLists ==
    {LET dims == SelectSeq(Dimensions, LAMBDA d : d \in hit)
     IN  [i \in 1..Len(dims) |-> Str(FACTOR_LABELS[dims[i]])] :
     hit \in SUBSET DimensionSet}

\* the inputs phases 6 and 7 can hand over
SummaryInputs ==
    [intent_label : GENERATOR_VALID_INTENT_LABELS,
     conditionality : GENERATOR_VALID_CONDITIONALITY,
     obligation_strength : GENERATOR_VALID_OBLIGATION,
     contradictions_detected : {PyBool(TRUE), PyBool(FALSE)},
     risk_score : {PyInt(72)},
     fraud_likelihood : VALID_FRAUD_LIKELIHOOD,
     key_risk_factors : {List(l) : l \in SummaryFactorLists}]

\* the inputs of the tests of generate_summary, and inputs off the contract
TestInputs ==
    [intent_label |-> Str("repayment_promise"), conditionality |-> Str("high"),
     obligation_strength |-> Str("conditional"),
     contradictions_detected |-> PyBool(TRUE), risk_score |-> PyInt(78),
     fraud_likelihood |-> Str("high"),
     key_risk_factors |-> List(<<Str("conditional_commitment"),
                                 Str("contradictory_statements")>>)]

\* lists the contract of phase 7 excludes and _validate_inputs accepts
RepeatedFactorInputs ==
    {[TestInputs EXCEPT !.key_risk_factors = List(l)] :
     l \in {<<Str("risky_intent"), Str("risky_intent"), Str("weak_obligation")>>,
            <<Str("contradictory_statements"), Str("high_emotional_stress"),
              Str("weak_obligation")>>}}

OffContractInputs ==
    {[TestInputs EXCEPT !.intent_label = Str("invalid_label")],
     [TestInputs EXCEPT !.risk_score = PyInt(101)],
     [TestInputs EXCEPT !.contradictions_detected = Str("yes")],
     [TestInputs EXCEPT !.key_risk_factors = List(<<Str("made_up")>>)]}

\* what a replaced _call_openai returns or raises
PatchedOutcomes ==
    {Return(Text(<<"Customer", " ", "made", " ", "a", " ", "conditional",
                   " ", "promise", ".">>)),
     Return(Text(<<" ", "Customer", " ", "made", " ", "a", " ", "promise",
                   ".", "\n">>)),
     Return(Text(<<"Customer", " ", "is", " ", "a", " ", "fraudster", " ",
                   "who", " ", "lied", ".">>)),
     Return(Text(<<"Customer", " ", "lied", ".">>)),
     Return(Text(<<"Customer", " ", "committed", " ", "fraud", ",", " ",
                   "apparently", ".">>)),
     Return(Text(<<"First", " ", "sentence", ".", " ", "Second", " ",
                   "sentence", ".">>)),
     Return(Text(<<"Customer", " ", "promised", "!", " ", "Customer", " ",
                   "delayed", ".">>)),
     Return(Text(<<"Customer", " ", "has", " ", "risk", " ", "level", " ",
                   "78", " ", "requiring", " ", "review", ".">>)),
     Return(Text(<<"Customer", " ", "owes", " ", "5000", " ", "rupees", ".">>)),
     Return(Text(<<"Customer", " ", "promised", " ", "payment">>)),
     Return(Text(<<" ", " ">>)),
     Return(Text(<<>>)),
     Raise("Exception", "none", "API unavailable"),
     Raise("OSError", "none", "OPENAI_API_KEY not set")}

\* generate_summary(**inputs) as the module is built
CallGenerateSummary ==
    /\ fnPc = "idle"
    /\ fnPc' = "done"
    /\ \E inputs \in SummaryInputs \cup OffContractInputs, api_key_set \in BOOLEAN :
           LET openai == call_openai(api_key_set)
               out == generate_summary(inputs, openai)
           IN  /\ fnArgs' = [function |-> "generate_summary", inputs |-> inputs,
                             patched |-> FALSE, openai |-> openai]
               /\ fnOut' = [outcome |-> out,
                            verified |-> IF out.kind = "return"
                                         THEN verify_phase8(out.value)
                                         ELSE Unset]
    /\ UNCHANGED <<riskVars, verifyVars, bundleVars, assembleVars, requests,
                   retry, limiter, pipeVars>>

\* generate_summary(**inputs) with _call_openai replaced, as its tests do
CallGenerateSummaryPatched ==
    /\ fnPc = "idle"
    /\ fnPc' = "done"
    /\ \E inputs \in {TestInputs} \cup RepeatedFactorInputs \cup OffContractInputs, openai \in PatchedOutcomes :
           LET out == generate_summary(inputs, openai)
           IN  /\ fnArgs' = [function |-> "generate_summary", inputs |-> inputs,
                             patched |-> TRUE, openai |-> openai]
               /\ fnOut' = [outcome |-> out,
                            verified |-> IF out.kind = "return"
                                         THEN verify_phase8(out.value)
                                         ELSE Unset]
    /\ UNCHANGED <<riskVars, verifyVars, bundleVars, assembleVars, requests,
                   retry, limiter, pipeVars>>

SummaryNext == CallGenerateSummary \/ CallGenerateSummaryPatched

SpecSummary == Init /\ [][SummaryNext]_vars

-----------------------------------------------------------------------------
(* A caller that calls compute_risk several times in one process *)

MaxCalls == 3

RepeatBundles ==
    {[sentiment_label |-> "calm", sentiment_confidence |-> F(95),
      intent_label |-> "repayment_promise", intent_confidence |-> F(90),
      conditionality |-> "low", obligation_strength |-> "strong",
      contradictions_detected |-> FALSE, noise_level |-> "low",
      call_stability |-> "high", speech_naturalness |-> "normal"],
     [sentiment_label |-> "evasive", sentiment_confidence |-> F(92),
      intent_label |-> "deflection", intent_confidence |-> F(88),
      conditionality |-> "high", obligation_strength |-> "none",
      contradictions_detected |-> TRUE, noise_level |-> "high",
      call_stability |-> "low", speech_naturalness |-> "suspicious"]}

RepeatWeights ==
    {NoneValue, Dict(<<>>), Dict(Weights(0, 0, 0, 0, 10000, 0)),
     Dict(Weights(2000, 2000, 1000, 1000, 1000, 1000))}

RepeatCall ==
    /\ Len(riskHistory) < MaxCalls
    /\ \E bundle \in RepeatBundles, weights \in RepeatWeights,
          rft \in {RISK_FACTOR_THRESHOLD, 9500} :
           DoCall(bundle, weights,
                  <<FRAUD_THRESHOLD_HIGH, FRAUD_THRESHOLD_MEDIUM>>, rft)
    /\ riskHistory' = Append(riskHistory, [args |-> riskArgs', out |-> riskOut'])
    /\ UNCHANGED <<riskPc, callerVars, pipeVars>>

RepeatNext == RepeatCall

SpecRepeat == Init /\ [][RepeatNext]_vars

-----------------------------------------------------------------------------
(* One request to POST /api/v1/analyze-call.  The collaborators are black  *)
(* boxes: each call returns one of a few outputs, well formed or not, or   *)
(* raises.                                                                 *)

Segment(start_time, end_time, atoms) ==
    Dict([start_time |-> PyFloat(F(start_time)),
          end_time |-> PyFloat(F(end_time)), text |-> Text(atoms)])

Utterance(speaker, atoms, confidence) ==
    Dict([speaker |-> Str(speaker), text |-> Text(atoms),
          confidence |-> PyFloat(F(confidence))])

NormalizeOutcomes ==
    {Return(Str("normalized wav")),
     Raise("AudioValidationError", "none", "Audio file is empty."),
     Raise("AudioNormalizationError", "none",
           "Failed to export normalized audio")}

AudioQualityOutcomes ==
    {Return(Dict([noise_level |-> Str("low"), call_stability |-> Str("high"),
                  speech_naturalness |-> Str("normal")])),
     Return(Dict([noise_level |-> Str("high"), call_stability |-> Str("low"),
                  speech_naturalness |-> Str("suspicious")])),
     Return(Dict([noise_level |-> Str("loud"), call_stability |-> Str("high"),
                  speech_naturalness |-> Str("normal")])),
     Raise("RuntimeError", "none", "audio analysis failed")}

LanguageOutcomes ==
    {Return(Dict([language_name |-> Text(<<"Hindi">>)])),
     Raise("RuntimeError", "none",
           "OPENAI_API_KEY environment variable is not set.")}

TranscribeOutcomes ==
    {Return(List(<<Segment(0, 420, <<"Hello">>),
                   Segment(450, 810, <<"I", " ", "need", " ", "time">>)>>)),
     Return(List(<<Dict([start_time |-> PyFloat(F(0)),
                         end_time |-> PyFloat(F(100)),
                         text |-> Text(<<"hello">>),
                         speaker |-> Str("A")])>>)),
     Return(List(<<>>)),
     Raise("RuntimeError", "none", "STT provider failed")}

StructureOutcomes ==
    {Return(List(<<Utterance("AGENT", <<"Hello">>, 92),
                   Utterance("CUSTOMER", <<"I", " ", "need", " ", "time">>,
                             88)>>)),
     Return(List(<<Utterance("AGENT",
                             <<"Surely", " ", "you", " ", "know">>, 90),
                   Utterance("CUSTOMER", <<"I", " ", "know">>, 80)>>)),
     Return(List(<<Utterance("BOT", <<"hi">>, 50)>>)),
     Raise("ValueError", "none", "Semantic structuring returned no JSON")}

\* the utterances with every CUSTOMER text replaced by a redaction token
Redacted(utterances) ==
    List([i \in 1..Len(utterances[2]) |->
             IF At(utterances[2][i], "speaker") = Str("CUSTOMER")
             THEN Dict([utterances[2][i][2] EXCEPT
                           !.text = Text(<<"<REDACTED>">>)])
             ELSE utterances[2][i]])

NormalizeUtterancesOutcomes(utterances) ==
    {Return(utterances), Raise("TypeError", "none", "expected str")}

RedactOutcomes(utterances) ==
    {Return(utterances), Return(Redacted(utterances)), Return(List(<<>>)),
     Raise("TypeError", "none", "expected str")}

SentimentOutcomes ==
    {Return(Dict([label |-> Str("calm"), confidence |-> PyFloat(F(90))])),
     Return(Dict([label |-> Str("evasive"), confidence |-> PyFloat(F(92))])),
     Return(Dict([label |-> Str("stressed"), confidence |-> PyFloat(NaN)])),
     Return(Dict([label |-> Str("calm"), confidence |-> PyFloat(F(90)),
                  risk_score |-> PyInt(50)])),
     Raise("ValueError", "none", "Sentiment response is not valid JSON")}

IntentOutcomes ==
    {Return(Dict([label |-> Str("repayment_promise"),
                  confidence |-> PyFloat(F(90)),
                  conditionality |-> Str("low")])),
     Return(Dict([label |-> Str("repayment_promise"),
                  confidence |-> PyFloat(F(80)),
                  conditionality |-> Str("medium")])),
     Return(Dict([label |-> Str("deflection"),
                  confidence |-> PyFloat(F(88)),
                  conditionality |-> Str("high")])),
     Return(Dict([label |-> Str("refusal"),
                  confidence |-> PyFloat(F(150)),
                  conditionality |-> Str("low")])),
     Return(Dict([label |-> Str("greeting"),
                  confidence |-> PyFloat(F(70)),
                  conditionality |-> Str("low")])),
     Return(NoneValue),
     Raise("ValueError", "none", "OpenAI response is not valid JSON")}

\* the marker counts derive_obligation_strength finds in the customer text
MarkerCounts == 0..1

ContradictionOutcomes ==
    {Return(PyBool(TRUE)), Return(PyBool(FALSE)), Return(Str("yes")),
     Raise("ValueError", "none", "Contradiction response is not valid JSON")}

EntityOutcomes ==
    {Return(Dict([payment_commitment |-> NoneValue,
                  amount_mentioned |-> NoneValue])),
     Return(Dict([payment_commitment |-> Str("next_week"),
                  amount_mentioned |-> PyInt(5000)])),
     Return(Dict([payment_commitment |-> Str("next_week")])),
     Raise("ValueError", "none", "OpenAI response is not valid JSON")}

SummaryOutcomes ==
    {Return(Text(<<"Customer", " ", "made", " ", "a", " ", "conditional",
                   " ", "promise", ".">>)),
     Return(Text(<<"The", " ", "customer", " ", "lied", " ", "again", ".">>)),
     Return(Text(<<"Customer", " ", "promised">>)),
     Raise("ValueError", "none", "Invalid intent_label")}

WebhookOutcomes ==
    {<<"unconfigured">>, <<"post_failed">>, <<"not_json">>,
     <<"json", NoneValue>>, <<"json", Dict([status |-> Str("stored")])>>}

\* analyze_call up to the call of run_pipeline
ReceiveUpload ==
    /\ httpPc = "idle"
    /\ \E upload \in {"no filename", "unreadable", "read"} :
          IF upload = "no filename"
          THEN /\ response' = HTTPException(400, <<"Audio file is required.">>)
               /\ httpPc' = "responded"
               /\ UNCHANGED pipePc
          ELSE IF upload = "unreadable"
          THEN /\ response' =
                      HTTPException(400, <<"Failed to read uploaded file.">>)
               /\ httpPc' = "responded"
               /\ UNCHANGED pipePc
          ELSE /\ httpPc' = "running"
               /\ pipePc' = Statements[1]
               /\ UNCHANGED response
    /\ UNCHANGED <<locals, invoked, raised, result, riskVars, callerVars>>

\* one call made by run_pipeline: it is recorded, its exception leaves
\* run_pipeline, its return value is bound to the target
Invoke(name, out, target, value) ==
    /\ httpPc = "running"
    /\ invoked' = Append(invoked, [name |-> name, ok |-> out.kind = "return"])
    /\ raised' = IF out.kind = "raise" THEN Append(raised, out) ELSE raised
    /\ pipePc' = after(out, successor(name))
    /\ locals' = IF out.kind = "return" /\ target # ""
                 THEN [locals EXCEPT ![target] = value]
                 ELSE locals
    /\ UNCHANGED <<httpPc, response, callerVars>>

Call(name, out, target) ==
    /\ Invoke(name, out, target, out.value)
    /\ UNCHANGED <<result, riskVars>>

\* an assignment from a helper of pipeline.py
Assign(name, target, value) ==
    /\ httpPc = "running"
    /\ locals' = [locals EXCEPT ![target] = value]
    /\ pipePc' = successor(name)
    /\ UNCHANGED <<invoked, raised, result, httpPc, response, riskVars,
                   callerVars>>

\* PHASE 1
Normalize ==
    /\ pipePc = "normalize"
    /\ \E out \in NormalizeOutcomes : Call("normalize", out, "normalized_audio")

AnalyzeAudioQuality ==
    /\ pipePc = "analyze_audio_quality"
    /\ \E out \in AudioQualityOutcomes :
           Call("analyze_audio_quality", out, "audio_quality")

VerifyAudioQuality ==
    /\ pipePc = "verify_audio_quality"
    /\ Call("verify_audio_quality", verify_audio_quality(locals.audio_quality), "")

\* PHASE 2: call_language = lang_result.language_name.lower()
DetectLanguage ==
    /\ pipePc = "detect_language"
    /\ \E out \in LanguageOutcomes :
           /\ Invoke("detect_language", out, "call_language",
                     Text(Lower(At(out.value, "language_name")[2])))
           /\ UNCHANGED <<result, riskVars>>

Transcribe ==
    /\ pipePc = "transcribe"
    /\ \E out \in TranscribeOutcomes : Call("transcribe", out, "transcript")

VerifyPhase2 ==
    /\ pipePc = "verify_phase2"
    /\ Call("verify_phase2", verify_phase2(locals.transcript), "")

\* PHASE 3
StructureSemantically ==
    /\ pipePc = "structure_semantically"
    /\ \E out \in StructureOutcomes :
           Call("structure_semantically", out, "structured_utterances")

VerifyPhase3 ==
    /\ pipePc = "verify_phase3"
    /\ Call("verify_phase3", verify_phase3(locals.structured_utterances), "")

DeriveSpeakerAnalysis ==
    /\ pipePc = "_derive_speaker_analysis"
    /\ Assign("_derive_speaker_analysis", "speaker_analysis",
              derive_speaker_analysis(locals.structured_utterances))

\* PHASE 4
BridgePhase3ToPhase4 ==
    /\ pipePc = "_bridge_phase3_to_phase4"
    /\ Assign("_bridge_phase3_to_phase4", "phase4_input",
              bridge_phase3_to_phase4(locals.structured_utterances,
                                      locals.transcript))

NormalizeUtterances ==
    /\ pipePc = "normalize_utterances"
    /\ \E out \in NormalizeUtterancesOutcomes(locals.phase4_input) :
           Call("normalize_utterances", out, "normalized_utterances")

RedactUtterances ==
    /\ pipePc = "redact_utterances"
    /\ \E out \in RedactOutcomes(locals.normalized_utterances) :
           Call("redact_utterances", out, "phase4_output")

VerifyPhase4 ==
    /\ pipePc = "verify_phase4"
    /\ Call("verify_phase4", verify_phase4(locals.phase4_output), "")

\* PHASE 5
AnalyzeSentiment ==
    /\ pipePc = "analyze_sentiment"
    /\ \E out \in SentimentOutcomes : Call("analyze_sentiment", out, "sentiment")

VerifyPhase5 ==
    /\ pipePc = "verify_phase5"
    /\ Call("verify_phase5", verify_phase5(locals.sentiment), "")

\* PHASE 6
ClassifyIntent ==
    /\ pipePc = "classify_intent"
    /\ \E out \in IntentOutcomes : Call("classify_intent", out, "intent")

DeriveObligationStrength ==
    /\ pipePc = "derive_obligation_strength"
    /\ \E strong_count, weak_count, conditional_count \in MarkerCounts :
           Call("derive_obligation_strength",
                derive_obligation_strength(locals.intent, strong_count,
                                           weak_count, conditional_count),
                "obligation_strength")

DetectContradictions ==
    /\ pipePc = "detect_contradictions"
    /\ \E out \in ContradictionOutcomes :
           Call("detect_contradictions", out, "contradictions_detected")

ExtractEntities ==
    /\ pipePc = "extract_entities"
    /\ \E out \in EntityOutcomes : Call("extract_entities", out, "entities")

VerifyPhase6 ==
    /\ pipePc = "verify_phase6"
    /\ Call("verify_phase6",
            verify_phase6(locals.intent, locals.obligation_strength,
                          locals.contradictions_detected, locals.entities),
            "")

\* PHASE 7
BuildSignalBundle ==
    /\ pipePc = "build_signal_bundle"
    /\ LET out == build_signal_bundle(
                      locals.sentiment, locals.intent, locals.obligation_strength,
                      locals.contradictions_detected, locals.audio_quality)
       IN  /\ Invoke("build_signal_bundle", out, "signal_bundle",
                     <<"bundle", out.value>>)
           /\ UNCHANGED <<result, riskVars>>

\* risk_assessment = compute_risk(signal_bundle)
ComputeRisk ==
    /\ pipePc = "compute_risk"
    /\ LET out == compute_risk(locals.signal_bundle[2], NoneValue,
                               FRAUD_THRESHOLD_HIGH, FRAUD_THRESHOLD_MEDIUM,
                               RISK_FACTOR_THRESHOLD, DEFAULT_WEIGHTS)
       IN  /\ Invoke("compute_risk", out, "risk_assessment",
                     risk_assessment_dict(out.value))
           /\ DEFAULT_WEIGHTS' =
                  globals_after_compute_risk(DEFAULT_WEIGHTS, NoneValue)
           /\ UNCHANGED <<result, riskPc, riskArgs, riskOut, riskHistory>>

VerifyPhase7 ==
    /\ pipePc = "verify_phase7"
    /\ Call("verify_phase7", verify_phase7(locals.risk_assessment), "")

DeriveAudioTrustFlags ==
    /\ pipePc = "_derive_audio_trust_flags"
    /\ Assign("_derive_audio_trust_flags", "audio_trust_flags",
              derive_audio_trust_flags(locals.audio_quality))

DeriveBehavioralFlags ==
    /\ pipePc = "_derive_behavioral_flags"
    /\ Assign("_derive_behavioral_flags", "behavioral_flags",
              derive_behavioral_flags(
                  At(locals.risk_assessment, "key_risk_factors"),
                  locals.contradictions_detected))

\* PHASE 8
GenerateSummary ==
    /\ pipePc = "generate_summary"
    /\ \E out \in SummaryOutcomes : Call("generate_summary", out, "summary")

VerifyPhase8 ==
    /\ pipePc = "verify_phase8"
    /\ Call("verify_phase8", verify_phase8(locals.summary), "")

\* FINAL: final_output = _assemble_final_json(...); return final_output
AssembleFinalJson ==
    /\ pipePc = "_assemble_final_json"
    /\ LET out == assemble_final_json(
                      [call_language |-> locals.call_language,
                       audio_quality |-> locals.audio_quality,
                       speaker_analysis |-> locals.speaker_analysis,
                       sentiment |-> locals.sentiment,
                       intent |-> locals.intent,
                       obligation_strength |-> locals.obligation_strength,
                       entities |-> locals.entities,
                       contradictions_detected |->
                           locals.contradictions_detected,
                       audio_trust_flags |-> locals.audio_trust_flags,
                       behavioral_flags |-> locals.behavioral_flags,
                       risk_assessment |-> locals.risk_assessment,
                       summary |-> locals.summary,
                       conversation |-> locals.phase4_output])
       IN  /\ Invoke("_assemble_final_json", out, "final_output", out.value)
           /\ result' = IF out.kind = "return" THEN out.value ELSE result
           /\ UNCHANGED riskVars

\* analyze_call: the except clauses around run_pipeline
HandleError ==
    /\ httpPc = "running"
    /\ pipePc = "raised"
    /\ response' = http_error(raised[Len(raised)])
    /\ httpPc' = "responded"
    /\ UNCHANGED <<pipePc, locals, invoked, raised, result, riskVars,
                   callerVars>>

\* analyze_call after run_pipeline returned: the webhook POST and the answer
Respond ==
    /\ httpPc = "running"
    /\ pipePc = "returned"
    /\ \E webhook \in WebhookOutcomes :
          response' =
              JSONResponse(200, IF webhook_response(webhook) # NoneValue
                                THEN webhook_response(webhook)
                                ELSE result)
    /\ httpPc' = "responded"
    /\ UNCHANGED <<pipePc, locals, invoked, raised, result, riskVars,
                   callerVars>>

PipelineNext ==
    \/ ReceiveUpload
    \/ Normalize \/ AnalyzeAudioQuality \/ VerifyAudioQuality
    \/ DetectLanguage \/ Transcribe \/ VerifyPhase2
    \/ StructureSemantically \/ VerifyPhase3 \/ DeriveSpeakerAnalysis
    \/ BridgePhase3ToPhase4 \/ NormalizeUtterances \/ RedactUtterances
    \/ VerifyPhase4
    \/ AnalyzeSentiment \/ VerifyPhase5
    \/ ClassifyIntent \/ DeriveObligationStrength \/ DetectContradictions
    \/ ExtractEntities \/ VerifyPhase6
    \/ BuildSignalBundle \/ ComputeRisk \/ VerifyPhase7
    \/ DeriveAudioTrustFlags \/ DeriveBehavioralFlags
    \/ GenerateSummary \/ VerifyPhase8
    \/ AssembleFinalJson
    \/ HandleError \/ Respond

SpecPipeline == Init /\ [][PipelineNext]_vars

-----------------------------------------------------------------------------
(* Claims about compute_risk *)

Range(seq) == {seq[i] : i \in 1..Len(seq)}

NoDuplicates(seq) ==
    \A i, j \in 1..Len(seq) : seq[i] = seq[j] => i = j

Returned == riskPc = "done" /\ riskOut.kind = "return"

\* C2: whenever compute_risk returns for a bundle with contradictions_detected
\* = true, key_risk_factors contains "contradictory_statements", whatever the
\* weights and the risk_factor_threshold.
C2_ContradictionFactorForced ==
    (Returned /\ riskArgs.bundle.contradictions_detected)
        => "contradictory_statements" \in Range(riskOut.value.key_risk_factors)

InvalidMapping(w) ==
    \/ DOMAIN w # DimensionSet
    \/ Abs(SumOver(w, DOMAIN w) - 10000) > 10

\* C3: a call whose weight mapping has a key set other than the six dimensions
\* (the empty mapping included) or values that do not sum to 1.0 within 0.001
\* raises ValueError and returns no assessment.
C3_InvalidWeightsRaise ==
    (riskPc = "done" /\ riskArgs.weights # NoneValue
                    /\ InvalidMapping(riskArgs.weights[2]))
        => (riskOut.kind = "raise" /\ riskOut.type = "ValueError")

DefaultThresholds ==
    /\ riskArgs.fraud_threshold_high = FRAUD_THRESHOLD_HIGH
    /\ riskArgs.fraud_threshold_medium = FRAUD_THRESHOLD_MEDIUM

\* C11: the fraud_likelihood of a returned assessment is decided by its
\* integer risk_score and the two thresholds of the call alone: "high" when
\* risk_score >= fraud_threshold_high, otherwise "medium" when risk_score >=
\* fraud_threshold_medium, otherwise "low"; under the defaults 65 is high,
\* 64 and 35 are medium and 34 is low.
C11_FraudLikelihoodByThresholds ==
    Returned =>
        LET score == 100 * riskOut.value.risk_score
            label == riskOut.value.fraud_likelihood
        IN  /\ (label = "high") <=> (score >= riskArgs.fraud_threshold_high)
            /\ (label = "medium") <=>
                   /\ score < riskArgs.fraud_threshold_high
                   /\ score >= riskArgs.fraud_threshold_medium
            /\ (label = "low") <=>
                   /\ score < riskArgs.fraud_threshold_high
                   /\ score < riskArgs.fraud_threshold_medium
            /\ DefaultThresholds =>
                   /\ riskOut.value.risk_score = 65 => label = "high"
                   /\ riskOut.value.risk_score \in {64, 35} => label = "medium"
                   /\ riskOut.value.risk_score = 34 => label = "low"

\* a call under the default thresholds whose score is exactly 65
C11_Witness ==
    /\ Returned
    /\ DefaultThresholds
    /\ riskOut.value.risk_score = 65
    /\ riskOut.value.fraud_likelihood = "high"

\* C18: for a bundle whose two confidences lie in [0, 1] the confidence of
\* the returned assessment is 0.40 * sentiment_confidence + 0.40 *
\* intent_confidence + 0.20 rounded to two decimals: the hundredth nearest to
\* that sum, never below 0.20, never above 1.0, whatever the categorical
\* signals, the weights and the thresholds of the call.
C18_ConfidenceFormula ==
    (/\ Returned
     /\ riskArgs.bundle.sentiment_confidence[1] = "f"
     /\ riskArgs.bundle.intent_confidence[1] = "f")
    => LET sum == 40 * riskArgs.bundle.sentiment_confidence[2]
                      + 40 * riskArgs.bundle.intent_confidence[2] + 2000
           confidence == riskOut.value.confidence
       IN  /\ confidence[1] = "f"
           /\ 100 * confidence[2] - 50 < sum
           /\ sum < 100 * confidence[2] + 50
           /\ confidence[2] >= 20
           /\ confidence[2] <= 100

\* both upstream confidences are 0 and the confidence returned is 0.20
C18_Witness ==
    /\ Returned
    /\ riskArgs.bundle.sentiment_confidence = F(0)
    /\ riskArgs.bundle.intent_confidence = F(0)
    /\ riskOut.value.confidence = F(20)

\* the evasive, deflecting, contradictory caller on a bad line
EvasiveContradictory ==
    [sentiment_label |-> "evasive", sentiment_confidence |-> F(90),
     intent_label |-> "deflection", intent_confidence |-> F(85),
     conditionality |-> "high", obligation_strength |-> "none",
     contradictions_detected |-> TRUE, noise_level |-> "high",
     call_stability |-> "low", speech_naturalness |-> "suspicious"]

DefaultCall ==
    /\ riskArgs.weights = NoneValue
    /\ DefaultThresholds
    /\ riskArgs.risk_factor_threshold = RISK_FACTOR_THRESHOLD

\* C20: under the default weights and thresholds the bundle {evasive 0.9,
\* deflection 0.85, conditionality high, obligation none, contradictions
\* true, noise high, stability low, naturalness suspicious} gets a
\* risk_score of at least 65, fraud_likelihood "high" and key_risk_factors
\* that hold "contradictory_statements" and at least two other factors.
C20_EvasiveContradictoryIsHigh ==
    (riskPc = "done" /\ DefaultCall /\ riskArgs.bundle = EvasiveContradictory)
    => /\ riskOut.kind = "return"
       /\ riskOut.value.risk_score >= 65
       /\ riskOut.value.fraud_likelihood = "high"
       /\ "contradictory_statements" \in Range(riskOut.value.key_risk_factors)
       /\ Cardinality(Range(riskOut.value.key_risk_factors)
                          \ {"contradictory_statements"}) >= 2

\* that call, made and returned: 76, with all six factors
C20_Witness ==
    /\ Returned
    /\ DefaultCall
    /\ riskArgs.bundle = EvasiveContradictory
    /\ riskOut.value.risk_score = 76
    /\ Len(riskOut.value.key_risk_factors) = 6

\* what a request produces when it is the only one the process serves
Alone(phases) ==
    LET built == build_signal_bundle(phases.sentiment, phases.intent,
                                     phases.obligation_strength,
                                     phases.contradictions_detected,
                                     phases.audio_quality)
        scored == IF built.kind = "raise" THEN built
                  ELSE compute_risk(built.value, NoneValue,
                                    FRAUD_THRESHOLD_HIGH,
                                    FRAUD_THRESHOLD_MEDIUM,
                                    RISK_FACTOR_THRESHOLD, DefaultWeights)
        assembled == IF scored.kind = "raise" THEN scored
                     ELSE assemble_final_json(
                              FinalArgs(phases, risk_assessment_dict(scored.value)))
    IN  [signal_bundle |-> built, risk_assessment |-> scored,
         final_output |-> assembled]

\* request r holds, at the position it has reached, what it holds there alone
AsAlone(r) ==
    LET request == requests[r]
        alone == Alone(request.received)
    IN  /\ request.phases = request.received
        /\ request.pc \in {"score", "assemble", "done"}
               => request.signal_bundle = alone.signal_bundle.value
        /\ request.pc \in {"assemble", "done"}
               => /\ alone.risk_assessment.kind = "return"
                  /\ request.risk_assessment =
                         risk_assessment_dict(alone.risk_assessment.value)
        /\ request.pc = "done"
               => /\ alone.final_output.kind = "return"
                  /\ request.final_output = alone.final_output.value
        /\ request.pc = "failed"
               => request.raised \in {alone.signal_bundle,
                                      alone.risk_assessment,
                                      alone.final_output}

LabelPosition(label) ==
    CHOOSE i \in 1..Len(Dimensions) : FACTOR_LABELS[Dimensions[i]] = label

Derived == fnPc = "done" /\ fnArgs.function = "_derive_behavioral_flags"

\* C22: for every list of key risk factors and every contradictions flag
\* _derive_behavioral_flags returns a list without duplicates that holds
\* "statement_contradiction" whenever contradictions_detected is true, also
\* when "contradictory_statements" is not among the factors; in the final
\* record built from them, nlp_insights.contradictions_detected = true
\* implies "statement_contradiction" in risk_signals.behavioral_flags.
C22_ContradictionFlagPresent ==
    Derived =>
        LET flags == fnOut.flags[2]
            final == fnOut.final_output
        IN  /\ fnOut.flags[1] = "list"
            /\ \A i, j \in 1..Len(flags) : i # j => flags[i] # flags[j]
            /\ fnArgs.contradictions_detected = PyBool(TRUE)
                   => \E i \in 1..Len(flags) :
                          flags[i] = Str("statement_contradiction")
            /\ final.kind = "return"
            /\ At(At(final.value, "nlp_insights"), "contradictions_detected")
                   = PyBool(TRUE)
               => LET listed == At(At(final.value, "risk_signals"),
                                   "behavioral_flags")[2]
                  IN  \E i \in 1..Len(listed) :
                          listed[i] = Str("statement_contradiction")

\* contradictions detected, a repeated factor and no "contradictory_statements"
\* among the factors: one flag for the factor, then "statement_contradiction"
C22_Witness ==
    /\ Derived
    /\ fnArgs.contradictions_detected = PyBool(TRUE)
    /\ fnArgs.key_risk_factors =
           List(<<Str("risky_intent"), Str("risky_intent")>>)
    /\ fnOut.flags =
           List(<<Str("evasive_responses"), Str("statement_contradiction")>>)

Verified(verifier) ==
    verifyPc = "done" /\ verifyArgs.verifier = verifier

ForbiddenSentimentKeys == {"risk_score", "fraud_likelihood", "intent"}

HasSpeaker(seg) == IsDict(seg) /\ Has(seg, "speaker")

SomeSpeaker(transcript) ==
    /\ IsList(transcript)
    /\ \E i \in 1..Len(transcript[2]) : HasSpeaker(transcript[2][i])

FailsPhase2 ==
    /\ verifyOut.kind = "raise"
    /\ verifyOut.type = "PhaseVerificationError"
    /\ verifyOut.phase = "2"

\* C9 as stated: every transcript with a "speaker" key in some segment is
\* rejected with a phase-2 failure whose message references "diarization is
\* FORBIDDEN", also when the same or an earlier segment has another defect.
C9_AlwaysDiarizationMessage ==
    (Verified("verify_phase2") /\ SomeSpeaker(verifyArgs.input))
    => FailsPhase2 /\ verifyOut.message = DiarizationForbidden

\* a segment with its three fields, numeric timestamps and non-blank text
WellFormed(seg) ==
    /\ IsDict(seg)
    /\ {"start_time", "end_time", "text"} \subseteq DOMAIN seg[2]
    /\ seg[2].start_time[1] \in {"int", "float", "bool"}
    /\ seg[2].end_time[1] \in {"int", "float", "bool"}
    /\ seg[2].text[1] = "text"
    /\ \E i \in 1..Len(seg[2].text[2]) : seg[2].text[2][i] \notin Whitespace

\* the first segment with a "speaker" key is well formed, and so is every
\* segment before it
FirstDefectIsSpeaker(transcript) ==
    /\ SomeSpeaker(transcript)
    /\ LET first == Min({i \in 1..Len(transcript[2]) :
                            HasSpeaker(transcript[2][i])})
       IN  \A j \in 1..first : WellFormed(transcript[2][j])

\* C9: every transcript with a "speaker" key in some segment is rejected
\* with a phase-2 failure; its message references "diarization is FORBIDDEN"
\* exactly when no earlier segment and no other field of the first
\* speaker-bearing segment is defective, and names the earlier defect
\* otherwise.
C9_SpeakerFailsPhase2 ==
    (Verified("verify_phase2") /\ SomeSpeaker(verifyArgs.input))
    => /\ FailsPhase2
       /\ (verifyOut.message = DiarizationForbidden)
             <=> FirstDefectIsSpeaker(verifyArgs.input)

\* a valid segment followed by one whose only defect is its "speaker" key
C9_Witness ==
    /\ Verified("verify_phase2")
    /\ IsList(verifyArgs.input)
    /\ Len(verifyArgs.input[2]) = 2
    /\ ~HasSpeaker(verifyArgs.input[2][1])
    /\ HasSpeaker(verifyArgs.input[2][2])
    /\ verifyOut = PhaseVerificationError("2", DiarizationForbidden)

\* the phase identifier each verifier tags its failures with
OwnPhase ==
    [verify_audio_quality |-> "1", verify_phase2 |-> "2",
     verify_phase3 |-> "3", verify_phase4 |-> "4", verify_phase5 |-> "5",
     verify_phase6 |-> "6", verify_phase7 |-> "7", verify_phase8 |-> "8"]

\* the fields each verifier requires of its input, or of each element of it
RequiredFields ==
    [verify_audio_quality |->
         {"noise_level", "call_stability", "speech_naturalness"},
     verify_phase2 |-> {"start_time", "end_time", "text"},
     verify_phase3 |-> {"speaker", "text", "confidence"},
     verify_phase4 |-> {"speaker", "text", "start_time", "end_time"},
     verify_phase5 |-> {"label", "confidence"},
     verify_phase7 |->
         {"risk_score", "fraud_likelihood", "confidence", "key_risk_factors"}]

Lacks(d, fields) == d[1] = "dict" /\ ~(fields \subseteq DOMAIN d[2])

\* a required field is absent from the input of the call made
LacksRequired ==
    LET verifier == verifyArgs.verifier
        input == verifyArgs.input
    IN  IF verifier \in {"verify_phase2", "verify_phase3", "verify_phase4"}
        THEN /\ input[1] = "list"
             /\ \E i \in 1..Len(input[2]) :
                   Lacks(input[2][i], RequiredFields[verifier])
        ELSE IF verifier = "verify_phase6"
        THEN \/ Lacks(input[2].intent,
                      {"label", "confidence", "conditionality"})
             \/ Lacks(input[2].entities,
                      {"payment_commitment", "amount_mentioned"})
        ELSE IF verifier = "verify_phase8" THEN FALSE
        ELSE Lacks(input, RequiredFields[verifier])

EndsBeforeItStarts(seg) ==
    /\ seg[1] = "dict"
    /\ {"start_time", "end_time"} \subseteq DOMAIN seg[2]
    /\ seg[2].start_time[1] = "float"
    /\ seg[2].end_time[1] = "float"
    /\ seg[2].end_time[2][2] <= seg[2].start_time[2][2]

\* C17: verify_phase2 raises a phase-2 failure for every transcript in which
\* some segment has an end_time equal to or smaller than its start_time.
C17_EndAfterStartEnforced ==
    (/\ Verified("verify_phase2")
     /\ IsList(verifyArgs.input)
     /\ \E i \in 1..Len(verifyArgs.input[2]) :
           EndsBeforeItStarts(verifyArgs.input[2][i]))
    => FailsPhase2

\* a banned word occurs in the summary as a word
BannedWordOccurs(summary) ==
    /\ summary[1] = "text"
    /\ \E i \in 1..Len(summary[2]) : Lower(summary[2])[i] \in BANNED_WORDS

\* C28: verify_phase8 rejects every summary in which a banned accusatory word
\* occurs as a word, also when the word is immediately followed by
\* punctuation such as a comma or the sentence-final period.
C28_BannedWordRejected ==
    (Verified("verify_phase8") /\ BannedWordOccurs(verifyArgs.input))
    => /\ verifyOut.kind = "raise"
       /\ verifyOut.phase = "8"

-----------------------------------------------------------------------------
(* Claims about build_signal_bundle *)

\* the value under a key is a str of the given enumeration
Labelled(d, key, labels) ==
    /\ key \in DOMAIN d[2]
    /\ d[2][key][1] = "str"
    /\ d[2][key][2] \in labels

\* the value under a key is an int or a float that lies in [0, 1]
UnitNumber(d, key) ==
    /\ key \in DOMAIN d[2]
    /\ \/ d[2][key][1] = "int" /\ d[2][key][2] \in {0, 1}
       \/ /\ d[2][key][1] = "float"
          /\ d[2][key][2][1] = "f"
          /\ d[2][key][2][2] >= 0
          /\ d[2][key][2][2] <= 100

\* the ten fields in the order the claim fixes; each is valid or not
FieldValid(args) ==
    <<args.sentiment[1] = "dict"
          /\ Labelled(args.sentiment, "label", SentimentLabels),
      args.sentiment[1] = "dict" /\ UnitNumber(args.sentiment, "confidence"),
      args.intent[1] = "dict" /\ Labelled(args.intent, "label", IntentLabels),
      args.intent[1] = "dict" /\ UnitNumber(args.intent, "confidence"),
      args.intent[1] = "dict"
          /\ Labelled(args.intent, "conditionality", Conditionalities),
      args.obligation_strength[1] = "str"
          /\ args.obligation_strength[2] \in Obligations,
      args.contradictions_detected[1] = "bool",
      args.audio_quality[1] = "dict"
          /\ Labelled(args.audio_quality, "noise_level",
                      {"low", "medium", "high"}),
      args.audio_quality[1] = "dict"
          /\ Labelled(args.audio_quality, "call_stability",
                      {"low", "medium", "high"}),
      args.audio_quality[1] = "dict"
          /\ Labelled(args.audio_quality, "speech_naturalness",
                      {"normal", "suspicious"})>>

InvalidFields(args) == {k \in 1..10 : ~FieldValid(args)[k]}

Built == bundlePc = "done" /\ bundleOut.kind = "return"

\* a number as hundredths
Hundredths(v) == IF v[1] = "int" THEN 100 * v[2] ELSE v[2][2]

\* C12: build_signal_bundle returns a bundle exactly when each of the ten
\* fields is in its domain (labels in their enumerations, confidences numbers
\* in [0, 1], contradictions_detected a bool); the bundle holds the supplied
\* values; any other call raises.
C12_BundleIffInDomain ==
    bundlePc = "done" =>
        /\ Built <=> InvalidFields(bundleArgs) = {}
        /\ ~Built => bundleOut.kind = "raise"
        /\ Built =>
              LET b == bundleOut.value
                  a == bundleArgs
              IN  /\ b.sentiment_label = a.sentiment[2].label[2]
                  /\ b.sentiment_confidence[1] = "f"
                  /\ b.sentiment_confidence[2]
                        = Hundredths(a.sentiment[2].confidence)
                  /\ b.intent_label = a.intent[2].label[2]
                  /\ b.intent_confidence[1] = "f"
                  /\ b.intent_confidence[2]
                        = Hundredths(a.intent[2].confidence)
                  /\ b.conditionality = a.intent[2].conditionality[2]
                  /\ b.obligation_strength = a.obligation_strength[2]
                  /\ b.contradictions_detected = a.contradictions_detected[2]
                  /\ b.noise_level = a.audio_quality[2].noise_level[2]
                  /\ b.call_stability = a.audio_quality[2].call_stability[2]
                  /\ b.speech_naturalness
                        = a.audio_quality[2].speech_naturalness[2]

\* the field an error message names
FieldOfError ==
    <<1, 2, 2, 3, 4, 4, 5, 6, 7, 8, 9, 10>>

ErrorIndex(message) ==
    CHOOSE k \in 1..Len(BundleErrors) : BundleErrors[k] = message

\* C13: when two or more of the ten fields are invalid, the ValueError names
\* the first invalid one in the order sentiment label, sentiment confidence,
\* intent label, intent confidence, conditionality, obligation strength,
\* contradictions flag, noise_level, call_stability, speech_naturalness; no
\* later field is reported while an earlier one is invalid.
C13_FirstInvalidReported ==
    (/\ bundlePc = "done"
     /\ bundleArgs.sentiment[1] = "dict"
     /\ bundleArgs.intent[1] = "dict"
     /\ bundleArgs.audio_quality[1] = "dict"
     /\ Cardinality(InvalidFields(bundleArgs)) >= 2)
    => /\ bundleOut.kind = "raise"
       /\ bundleOut.type = "ValueError"
       /\ FieldOfError[ErrorIndex(bundleOut.message)]
             = Min(InvalidFields(bundleArgs))

-----------------------------------------------------------------------------
(* Claims about _assemble_final_json *)

\* the three verifiers that run before phase 7 accept the arguments of the call
VerifiersAccept ==
    /\ verify_phase5(bundleArgs.sentiment) = Passed
    /\ verify_phase6(bundleArgs.intent, bundleArgs.obligation_strength,
                     bundleArgs.contradictions_detected, ValidEntities) = Passed
    /\ verify_audio_quality(bundleArgs.audio_quality) = Passed

\* a number below 0.0 or above 1.0
OutOfRange(v) ==
    /\ v[1] \in {"int", "float", "bool"}
    /\ AsFloat(v)[1] = "f"
    /\ \/ AsFloat(v)[2] < 0
       \/ AsFloat(v)[2] > 100

\* C29: for every sentiment accepted by verify_phase5, every intent,
\* obligation and contradiction flag accepted by verify_phase6 and every audio
\* quality accepted by verify_audio_quality, build_signal_bundle fails if and
\* only if the intent confidence is a number outside [0, 1].
C29_BuilderFailsOnlyOnIntentRange ==
    (bundlePc = "done" /\ VerifiersAccept)
    => (bundleOut.kind = "raise"
           <=> OutOfRange(At(bundleArgs.intent, "confidence")))

\* verified phase outputs whose intent confidence is -0.1: the builder raises
C29_Witness ==
    /\ bundlePc = "done"
    /\ VerifiersAccept
    /\ At(bundleArgs.intent, "confidence") = PyFloat(F(-10))
    /\ bundleOut.kind = "raise"
    /\ bundleOut.message = "Intent confidence out of range"

Assembled == assemblePc = "done" /\ assembleOut.kind = "return"

\* the keys of a value at every level of nesting
RECURSIVE KeysAtAnyLevel(_)
KeysAtAnyLevel(v) ==
    IF v[1] = "dict"
    THEN DOMAIN v[2] \cup UNION {KeysAtAnyLevel(v[2][k]) : k \in DOMAIN v[2]}
    ELSE IF v[1] = "list"
    THEN UNION {KeysAtAnyLevel(v[2][i]) : i \in 1..Len(v[2])}
    ELSE {}

\* C14: in every record the assembler returns, each nested group has its
\* fixed key set whatever the inputs hold: keys a phase output has beyond
\* the ones placed (key_risk_factors, chunk_id, identifiers) are not copied,
\* a null payment_commitment or amount_mentioned stays as a null-valued key,
\* and no key call_id, customer_id or loan_id occurs at any level.
C14_FixedKeySets ==
    Assembled =>
        LET record == assembleOut.value[2]
        IN  /\ DOMAIN record.call_context[2] = {"call_language", "call_quality"}
            /\ DOMAIN record.call_context[2].call_quality[2]
                  = {"noise_level", "call_stability", "speech_naturalness"}
            /\ DOMAIN record.speaker_analysis[2]
                  = {"customer_only_analysis", "agent_influence_detected"}
            /\ DOMAIN record.nlp_insights[2]
                  = {"intent", "sentiment", "obligation_strength", "entities",
                     "contradictions_detected"}
            /\ DOMAIN record.risk_signals[2]
                  = {"audio_trust_flags", "behavioral_flags"}
            /\ DOMAIN record.risk_assessment[2]
                  = {"risk_score", "fraud_likelihood", "confidence"}
            /\ DOMAIN record.nlp_insights[2].entities[2]
                  = {"payment_commitment", "amount_mentioned"}
            /\ \A key \in {"payment_commitment", "amount_mentioned"} :
                  record.nlp_insights[2].entities[2][key]
                      = assembleArgs.entities[2][key]
            /\ KeysAtAnyLevel(assembleOut.value)
                  \cap {"call_id", "customer_id", "loan_id", "chunk_id",
                        "key_risk_factors"} = {}

\* a record assembled from null entities and from phase outputs that carry
\* identifiers and extra keys
C14_Witness ==
    /\ Assembled
    /\ assembleArgs.entities = With(NullEntities, "loan_id", Str("L-9"))
    /\ "call_id" \in DOMAIN assembleArgs.risk_assessment[2]
    /\ "key_risk_factors" \in DOMAIN assembleArgs.risk_assessment[2]
    /\ assembleArgs.conversation # NoneValue
    /\ Len(assembleArgs.conversation[2]) = 2
    /\ assembleOut.value[2].nlp_insights[2].entities = NullEntities

\* a value the assembler has to place is missing from the call
MissingValue(args) ==
    \/ \E i \in 1..Len(AssemblerReads) :
          AssemblerReads[i][2] \notin DOMAIN args[AssemblerReads[i][1]][2]
    \/ args.conversation = NoneValue

\* C15: the assembler raises, and returns no record, whenever a value it has
\* to place is missing (a required key of audio_quality, speaker_analysis,
\* intent, sentiment, entities or risk_assessment, or the conversation); it
\* puts no placeholder such as an empty list in its place.
C15_MissingValueFails ==
    (assemblePc = "done" /\ MissingValue(assembleArgs))
        => assembleOut.kind = "raise"

-----------------------------------------------------------------------------
(* Claims about derive_obligation_strength *)

ObligationDerived ==
    fnPc = "done" /\ fnArgs.function = "derive_obligation_strength"

\* what the customer said: the texts of the customer's utterances, in order
CustomerSaid(utterances) ==
    LET IsCustomer(u) == u[2].speaker \in {Str("CUSTOMER"), Str("customer")}
        own == SelectSeq(utterances, IsCustomer)
    IN  Lower(JoinWithSpace([i \in 1..Len(own) |-> Strip(own[i][2].text[2])]))

\* one of the markers occurs in the text
Occurs(markers, text) ==
    \E k \in 1..Len(markers), i \in 1..Len(text) :
        /\ i + Len(markers[k]) - 1 <= Len(text)
        /\ SubSeq(text, i, i + Len(markers[k]) - 1) = markers[k]

\* the decision table, for a conditionality of low, medium or high
ObligationTable(label, conditionality, said) ==
    IF label \notin {Str("repayment_promise"), Str("repayment_delay")}
    THEN "none"
    ELSE IF conditionality = Str("high") THEN "conditional"
    ELSE IF label = Str("repayment_delay")
    THEN IF conditionality = Str("low") THEN "weak" ELSE "conditional"
    ELSE IF conditionality = Str("low")
    THEN IF Occurs(STRONG_MARKERS, said) THEN "strong" ELSE "weak"
    ELSE IF Occurs(CONDITIONAL_MARKERS, said) THEN "conditional"
    ELSE IF count_marker_matches(said, STRONG_MARKERS)
                > count_marker_matches(said, WEAK_MARKERS)
    THEN "weak"
    ELSE "conditional"

\* C27: derive_obligation_strength equals the decision table for every
\* intent, conditionality and customer text: "none" for the five intents
\* without obligation and for a missing or unrecognized label; for the two
\* commitment intents "conditional" at high conditionality; for
\* repayment_promise at low "strong" with a strong marker and "weak" without,
\* at medium "conditional" with a conditional marker, else "weak" when strong
\* markers outnumber weak ones, else "conditional"; for repayment_delay "weak"
\* at low and "conditional" at medium; the agent's text has no influence.
C27_ObligationDecisionTable ==
    (/\ ObligationDerived
     /\ \/ "conditionality" \in DOMAIN fnArgs.intent_result[2]
        \/ GetOr(fnArgs.intent_result, "label", Str("unknown"))
               \notin {Str("repayment_promise"), Str("repayment_delay")})
    => fnOut = Return(Str(ObligationTable(
                   GetOr(fnArgs.intent_result, "label", NoneValue),
                   GetOr(fnArgs.intent_result, "conditionality", NoneValue),
                   CustomerSaid(fnArgs.utterances))))

\* a promise at low conditionality: the agent says "I promise", the customer
\* only "maybe not sure", and the strength is "weak"
C27_Witness ==
    /\ ObligationDerived
    /\ GetOr(fnArgs.intent_result, "label", NoneValue) = Str("repayment_promise")
    /\ GetOr(fnArgs.intent_result, "conditionality", NoneValue) = Str("low")
    /\ Len(fnArgs.utterances) = 2
    /\ fnArgs.utterances[1] =
           Dict([speaker |-> Str("AGENT"), text |-> Text(<<"I", " ", "promise">>)])
    /\ fnArgs.utterances[2] =
           Dict([speaker |-> Str("customer"),
                 text |-> Text(<<"maybe", " ", "not", " ", "sure">>)])
    /\ fnOut = Return(Str("weak"))

-----------------------------------------------------------------------------
(* Claims about chat_completions_with_retry *)

Failed(outcome) == outcome.kind = "raise"

\* a failure with one of the transient errors: rate limit, timeout,
\* connection, or a status of 429, 500, 502, 503, 504
Transient(outcome) ==
    /\ Failed(outcome)
    /\ \/ outcome.type \in {"RateLimitError", "APITimeoutError",
                            "APIConnectionError"}
       \/ outcome.has_status_code
              /\ outcome.status_code \in {429, 500, 502, 503, 504}
       \/ ~outcome.has_status_code
              /\ outcome.mentions \cap {429, 500, 502, 503, 504} # {}

RetryDiscipline ==
    LET calls == retry.calls
        n == Len(calls)
    IN  /\ n <= MAX_RETRIES + 1
        /\ \A k \in 1..(n - 1) : Transient(calls[k])
        /\ Len(retry.sleeps) <= MAX_RETRIES
        /\ retry.pc = "done"
               => /\ n >= 1
                  /\ retry.out = calls[n]
                  /\ Len(retry.sleeps) = n - 1
                  /\ \/ ~Failed(calls[n])
                     \/ ~Transient(calls[n])
                     \/ n = MAX_RETRIES + 1
        /\ (n >= 1 /\ ~Transient(calls[n])) => retry.pc = "done"

\* C25: chat_completions_with_retry makes at most MAX_RETRIES + 1 = 5 calls;
\* call k+1 is made only if calls 1..k all failed with a retryable error; a
\* non-retryable error is re-raised at once, with no further call and no
\* sleep; the wrapper always terminates, returning the first successful
\* response or raising the exception of its last call, and it does not sleep
\* after the final failed call.
C25_RetryBoundedAndTerminates ==
    /\ [](MAX_RETRIES + 1 = 5 /\ RetryDiscipline)
    /\ <>(retry.pc = "done")

\* five calls, all rate-limited: four sleeps of 1, 2, 4 and 8 seconds, and
\* the fifth exception raised
C25_Witness ==
    /\ retry.pc = "done"
    /\ Len(retry.calls) = 5
    /\ retry.sleeps = <<10, 20, 40, 80>>
    /\ retry.out = ProviderError("RateLimitError", TRUE, 429, {429})

-----------------------------------------------------------------------------
(* Claims about _AdaptiveRateLimiter.acquire *)

AcquiresReturned == SumOver([t \in Threads |-> limiter.threads[t].returned], Threads)

\* C26: under any interleaving of the threads that call acquire(), the number
\* of acquire() calls that have returned never exceeds the initial burst plus
\* the tokens that the time elapsed since construction can have refilled
C26_TokensNeverOverGranted ==
    AcquiresReturned * TicksPerToken <= Burst * TicksPerToken + limiter.now

-----------------------------------------------------------------------------
(* Claims about generate_summary *)

SummaryGenerated ==
    /\ fnPc = "done"
    /\ fnArgs.function = "generate_summary"
    /\ fnOut.outcome.kind = "return"

OnContract(inputs) ==
    validate_inputs(inputs.intent_label, inputs.conditionality,
                    inputs.obligation_strength, inputs.contradictions_detected,
                    inputs.risk_score, inputs.fraud_likelihood,
                    inputs.key_risk_factors) = Passed

TemplateOf(inputs) ==
    generate_template_summary(inputs.intent_label, inputs.conditionality,
                              inputs.obligation_strength,
                              inputs.contradictions_detected,
                              inputs.fraud_likelihood, inputs.key_risk_factors)

\* a text that is empty, holds a banned word, holds digits, lacks the final
\* period or has more than one sentence
Unfit(atoms) ==
    LET stripped == Strip(atoms)
        lowered == Lower(atoms)
    IN  \/ stripped = <<>>
        \/ \E i \in 1..Len(atoms) : lowered[i] \in GENERATOR_BANNED_WORDS
        \/ \E i \in 1..Len(atoms) : atoms[i] \in DOMAIN DigitRuns
        \/ stripped[Len(stripped)] # "."
        \/ Cardinality({i \in 1..Len(stripped) : stripped[i] \in {".", "!", "?"}}) > 1

\* C23: for inputs on the contract generate_summary never raises; when the
\* OpenAI call raises or returns a text that is empty, holds a banned word,
\* holds digits, lacks the final period or has more than one sentence, the
\* template summary is returned, and otherwise the validated OpenAI text
C23_UnfitTextFallsBackToTemplate ==
    (fnPc = "done" /\ fnArgs.function = "generate_summary"
        /\ OnContract(fnArgs.inputs))
    => /\ fnOut.outcome.kind = "return"
       /\ fnOut.outcome.value =
              IF fnArgs.openai.kind = "raise" \/ Unfit(fnArgs.openai.value[2])
              THEN TemplateOf(fnArgs.inputs)
              ELSE Text(Strip(fnArgs.openai.value[2]))

\* C30: every string generate_summary returns, the OpenAI text that passed
\* _validate_summary as well as the template summary of any inputs on the
\* contract, is accepted by verify_phase8
C30_ReturnedSummaryPassesPhase8 ==
    SummaryGenerated => fnOut.verified = Passed

\* a call that returned the text of the language model, which verify_phase8
\* accepted
C30_Witness ==
    /\ SummaryGenerated
    /\ fnArgs.openai.kind = "return"
    /\ fnOut.outcome.value = Text(Strip(fnArgs.openai.value[2]))
    /\ fnOut.outcome.value # TemplateOf(fnArgs.inputs)
    /\ fnOut.verified = Passed

-----------------------------------------------------------------------------
(* Claims about run_pipeline and analyze_call *)

SixTopLevelKeys ==
    {"call_context", "speaker_analysis", "nlp_insights", "risk_signals",
     "risk_assessment", "summary_for_rag"}

\* C1: the record run_pipeline returns has exactly the six top-level keys
\* call_context, speaker_analysis, nlp_insights, risk_signals,
\* risk_assessment and summary_for_rag, never a seventh and never fewer.
C1_ExactlySixKeys ==
    pipePc = "returned" => DOMAIN result[2] = SixTopLevelKeys

Names == [i \in 1..Len(invoked) |-> invoked[i].name]

Verifiers ==
    {"verify_audio_quality", "verify_phase2", "verify_phase3",
     "verify_phase4", "verify_phase5", "verify_phase6", "verify_phase7",
     "verify_phase8"}

Succeeded(name) ==
    \E i \in 1..Len(invoked) : invoked[i].name = name /\ invoked[i].ok

\* C5: run_pipeline returns a record only in a run in which every
\* collaborator of phases 1 to 8, every verifier, the bundle construction
\* and the assembly were called and succeeded; as soon as one of them
\* raises, run_pipeline ends with exactly that one error and has returned
\* nothing and built no record.
C5_AllOrNothing ==
    /\ pipePc = "returned"
          => /\ raised = <<>>
             /\ IsDict(result)
             /\ \A name \in DOMAIN PhaseOf : Succeeded(name)
    /\ raised # <<>>
          => /\ pipePc = "raised"
             /\ Len(raised) = 1
             /\ result = Unset
             /\ locals.final_output = Unset
    /\ pipePc = "raised" => raised # <<>>

\* a run that went through all eight phases and returned its record
C5_Witness ==
    /\ pipePc = "returned"
    /\ Len(invoked) = 24
    /\ IsDict(result)

PhaseOrder == <<"1", "2", "3", "4", "5", "6", "7", "8", "FINAL">>

PhaseNumber(name) ==
    CHOOSE k \in 1..Len(PhaseOrder) : PhaseOrder[k] = PhaseOf[name]

\* C6: the calls of one request follow the phases 1, 2, .., 8 and then the
\* assembly; within a phase the verifier comes last; a call of phase N+1 is
\* made only after the verifier of every earlier phase has succeeded; no
\* collaborator or verifier is called twice; and nothing is called after a
\* call that failed.
C6_PhaseOrder ==
    /\ NoDuplicates(Names)
    /\ \A i, j \in 1..Len(invoked) :
          i < j => /\ PhaseNumber(Names[i]) <= PhaseNumber(Names[j])
                   /\ PhaseNumber(Names[i]) = PhaseNumber(Names[j])
                         => Names[i] \notin Verifiers
                   /\ invoked[i].ok
    /\ \A j \in 1..Len(invoked) : \A v \in Verifiers :
          PhaseNumber(v) < PhaseNumber(Names[j])
             => \E i \in 1..(j - 1) : Names[i] = v /\ invoked[i].ok
    /\ pipePc = "raised" => ~invoked[Len(invoked)].ok

\* a run that passed phases 1 to 4 and stopped at the phase-5 verifier
C6_Witness ==
    /\ pipePc = "raised"
    /\ Len(invoked) = 13
    /\ invoked[13] = [name |-> "verify_phase5", ok |-> FALSE]
    /\ httpPc = "responded"

\* the phase in which the run failed: that of the last call made
FailingPhase == PhaseOf[invoked[Len(invoked)].name]

\* C7: every request that failed inside run_pipeline is answered with one
\* error whose detail names the phase at which it failed, whatever failed:
\* a verifier, build_signal_bundle, the weight validation or a collaborator.
C7_ErrorNamesPhase ==
    (httpPc = "responded" /\ pipePc = "raised")
    => /\ response.class = "HTTPException"
       /\ \E i \in 1..Len(response.detail) : response.detail[i] = FailingPhase

Answered200 ==
    /\ httpPc = "responded"
    /\ response.class = "JSONResponse"
    /\ response.status_code = 200

\* C24: every 200 response of analyze_call carries as its body exactly the
\* record run_pipeline returned for the request, whatever the webhook answers
C24_BodyIsFinalOutput ==
    Answered200 => response.content = result

====
